---------------------------- MODULE Spec2Model ----------------------------
(***************************************************************************)
(* Quadrotor simulator (Woodster188/dronsim): rigid body (Drone), cascaded *)
(* PID controller with Lyapunov value (LyapunovController), disturbance    *)
(* field (ExternalForces), frame-driven fixed-timestep loop (Simulation)   *)
(* and gain search (TrainingMode).                                         *)
(*                                                                         *)
(* Numbers.  JavaScript doubles are modelled in fixed point: every real    *)
(* quantity is an integer count of 1/Scale of its SI unit (millimetres,    *)
(* millinewtons, milliradians, gain/1000 ...).  Time is counted in ticks   *)
(* of 1/TimeScale second, so that fixedTimeStep = 1/60 s is the integer    *)
(* FixedTimeStep.  Products and quotients round toward zero.               *)
(*                                                                         *)
(* Control flow.  The page is single threaded: a handler (timer, click,    *)
(* animation frame) runs to its next await or to its end before another    *)
(* starts.  pc = "idle" means no handler is executing; pc = "frame" is     *)
(* inside the while loop of Simulation.animate; pc = "trial" is inside the *)
(* for loop of TrainingMode.evaluateParams.  Only at pc = "idle" may a new *)
(* handler start.                                                          *)
(***************************************************************************)
EXTENDS Integers, Sequences, FiniteSets, TLC

(***************************************************************************)
(* Fixed-point arithmetic                                                  *)
(***************************************************************************)
Scale == 10 * 100
TimeScale == 3 * Scale

Abs(a) == IF a < 0 THEN -a ELSE a
Sgn(a) == IF a < 0 THEN -1 ELSE 1
Min(a, b) == IF a < b THEN a ELSE b
Max(a, b) == IF a > b THEN a ELSE b

\* a / b rounded toward zero (b > 0)
Div(a, b) == Sgn(a) * (Abs(a) \div b)

\* a * b / Scale rounded toward zero; the product is split so that no
\* intermediate exceeds 32 bits
Mul(a, b) ==
    LET q == Abs(a) \div Scale
        r == Abs(a) % Scale
    IN  Sgn(a) * Sgn(b) * (q * Abs(b) + ((r * Abs(b)) \div Scale))

\* a * dt, dt in ticks of 1/TimeScale s
MulDt(a, dt) ==
    LET q == Abs(a) \div TimeScale
        r == Abs(a) % TimeScale
    IN  Sgn(a) * (q * dt + ((r * dt) \div TimeScale))

\* Math.max(lo, Math.min(hi, v))
Clamp(lo, hi, v) == Max(lo, Min(hi, v))

\* Math.PI and 2 * Math.PI in milliradians
Pi == 3141 + 1
TwoPi == 2 * 3141 + 1

RECURSIVE SqrtFrom(_, _)
SqrtFrom(n, g) == IF g * g <= n THEN g ELSE SqrtFrom(n, (g + n \div g) \div 2)

\* floor of the square root of n >= 0 (Newton iteration from above)
ISqrt(n) == IF n <= 0 THEN 0 ELSE SqrtFrom(n, Min(n, 46340))

\* Math.sqrt(x*x + y*y + z*z) of a fixed-point vector, in fixed point.
\* Components are pre-scaled by 1/64 or 1/4096 when large to stay within 32 bits.
MagnitudeScaled(v, k) ==
    k * ISqrt((v.x \div k) * (v.x \div k) + (v.y \div k) * (v.y \div k)
              + (v.z \div k) * (v.z \div k))

MagnitudeOf(v, largest) ==
    MagnitudeScaled(v, IF largest > 64 * 20000 THEN 64 * 64
                       ELSE IF largest > 20000 THEN 64 ELSE 1)

Magnitude(v) == MagnitudeOf(v, Max(Abs(v.x), Max(Abs(v.y), Abs(v.z))))

\* Math.sin on [-pi/2, pi/2]: odd Taylor polynomial up to x^7
SinSeries(x, x2, x3, x5) ==
    Clamp(-Scale, Scale, x - Div(x3, 6) + Div(x5, 120) - Div(Mul(x5, x2), 5040))

SinCubic(x, x2, x3) == SinSeries(x, x2, x3, Mul(x3, x2))

SinSquare(x, x2) == SinCubic(x, x2, Mul(x2, x))

SinCore(x) == SinSquare(x, Mul(x, x))

\* the angle reduced into [-pi, pi) for the trigonometric functions only
Reduce(a) == ((a + Pi) % TwoPi) - Pi

\* Math.sin
SinReduced(x) ==
    SinCore(IF x > Pi \div 2 THEN Pi - x
            ELSE IF x < -(Pi \div 2) THEN -Pi - x
            ELSE x)

Sin(a) == SinReduced(Reduce(a))

\* Math.cos
Cos(a) == Sin(a + Pi \div 2)

\* Math.atan2(y, x) for x > 0 (the only use: the tilt set-points, where the
\* denominator is the required thrust, checked > 0.1).  Rational
\* approximation atan r = r / (1 + 0.28 r^2), |r| <= 1, folded for |r| > 1.
AtanUnit(r) == Div(r * Scale, Scale + Div(28 * Mul(r, r), 100))

Atan2(y, x) ==
    Sgn(y) * (IF Abs(y) <= x
              THEN AtanUnit(Div(Abs(y) * Scale, x))
              ELSE Pi \div 2 - AtanUnit(Div(x * Scale, Abs(y))))

Vec(x, y, z) == [x |-> x, y |-> y, z |-> z]
ZeroVec == Vec(0, 0, 0)
Angles(r, p, y) == [roll |-> r, pitch |-> p, yaw |-> y]
ZeroAngles == Angles(0, 0, 0)
AddVec(a, b) == Vec(a.x + b.x, a.y + b.y, a.z + b.z)
ScaleVec(v, k) == Vec(Mul(v.x, k), Mul(v.y, k), Mul(v.z, k))
SquaredNorm(v) == Mul(v.x, v.x) + Mul(v.y, v.y) + Mul(v.z, v.z)
SquaredAngles(a) == Mul(a.roll, a.roll) + Mul(a.pitch, a.pitch) + Mul(a.yaw, a.yaw)


(***************************************************************************)
(* Drone (rigid body)                                                      *)
(***************************************************************************)
Gravity == 9810
DragCoefficient == 100
AngularDrag == 100
FloorHeight == 100
YawTorqueArm == 50

\* the drone as constructed by Simulation.init: mass 1.0, motorThrust 2.5,
\* motorDistance 0.25, hovering state of the constructor
DroneInit ==
    [mass |-> Scale, motorThrust |-> 2500, motorDistance |-> 250,
     position |-> Vec(0, 2000, 0), velocity |-> ZeroVec,
     rotation |-> ZeroAngles, angularVelocity |-> ZeroVec,
     motorSpeeds |-> <<500, 500, 500, 500>>]

\* inertia {x, y, z} = {2, 2, 4} * (mass / 8) * motorDistance^2, kept in
\* units of 1e-5 kg m^2 so that the quotient torque / inertia stays exact
calculateInertia(d) ==
    LET md2 == (d.motorDistance * d.motorDistance) \div 10
        ixx == (2 * (d.mass \div 8) * md2) \div Scale
        izz == (4 * (d.mass \div 8) * md2) \div Scale
    IN  Vec(ixx, ixx, izz)

\* the thrust of the four motors in world coordinates (lines 76-87)
ThrustVector(totalThrust, roll, pitch) ==
    Vec(Mul(totalThrust, Sin(pitch)),
        Mul(Mul(totalThrust, Cos(pitch)), Cos(roll)),
        -Mul(Mul(totalThrust, Sin(roll)), Cos(pitch)))

\* variant: thrust + gravity + external forces, no air drag
SumForcesNoDrag(d, thrust, externalForces) ==
    Vec(thrust.x + externalForces.x,
        thrust.y - Mul(d.mass, Gravity) + externalForces.y,
        thrust.z + externalForces.z)

\* thrust + gravity + drag + external forces (lines 89-108)
SumForces(d, thrust, externalForces) ==
    Vec(thrust.x - Mul(DragCoefficient, d.velocity.x) + externalForces.x,
        thrust.y - Mul(d.mass, Gravity) - Mul(DragCoefficient, d.velocity.y)
            + externalForces.y,
        thrust.z - Mul(DragCoefficient, d.velocity.z) + externalForces.z)

calculateTotalForce(d, externalForces) ==
    SumForces(d,
              ThrustVector(Mul(d.motorSpeeds[1] + d.motorSpeeds[2]
                               + d.motorSpeeds[3] + d.motorSpeeds[4], d.motorThrust),
                           d.rotation.roll, d.rotation.pitch),
              externalForces)

calculateTotalTorque(d, externalTorques) ==
    LET front == d.motorSpeeds[1]
        right == d.motorSpeeds[2]
        back == d.motorSpeeds[3]
        left == d.motorSpeeds[4]
        torqueX == Mul(Mul(right - left, d.motorThrust), d.motorDistance)
        torqueZ == Mul(Mul(front - back, d.motorThrust), d.motorDistance)
        torqueY == Mul(Mul((front + back) - (right + left), d.motorThrust), YawTorqueArm)
    IN  Vec(torqueX - Mul(AngularDrag, d.angularVelocity.x) + externalTorques.x,
            torqueY - Mul(AngularDrag, d.angularVelocity.y) + externalTorques.y,
            torqueZ - Mul(AngularDrag, d.angularVelocity.z) + externalTorques.z)

RECURSIVE normalizeDown(_)
normalizeDown(angle) == IF angle > Pi THEN normalizeDown(angle - TwoPi) ELSE angle
RECURSIVE normalizeUp(_)
normalizeUp(angle) == IF angle < -Pi THEN normalizeUp(angle + TwoPi) ELSE angle

\* while (angle > PI) angle -= 2 PI; while (angle < -PI) angle += 2 PI
normalizeAngle(angle) == normalizeUp(normalizeDown(angle))

\* variant: the floor reflects the sink rate instead of zeroing it
FloorClampReflect(y, vy) ==
    IF y < FloorHeight THEN [y |-> FloorHeight, vy |-> Abs(vy)]
    ELSE [y |-> y, vy |-> vy]

\* the floor clamp of Drone.update: [y, vy] after the clamp
FloorClamp(y, vy) ==
    IF y < FloorHeight THEN [y |-> FloorHeight, vy |-> Max(0, vy)]
    ELSE [y |-> y, vy |-> vy]

\* Drone.update(dt, externalForces, externalTorques)
\* acceleration = totalForce / mass (lines 150-154)
LinearAcceleration(d, totalForce) ==
    Vec(Div(totalForce.x * Scale, d.mass),
        Div(totalForce.y * Scale, d.mass),
        Div(totalForce.z * Scale, d.mass))

\* angularAcceleration = totalTorque / inertia, in mrad/s^2 (lines 174-178)
AngularAcceleration(totalTorque, inertia) ==
    Vec(Div(totalTorque.x * 10000, inertia.x) * 10,
        Div(totalTorque.y * 10000, inertia.y) * 10,
        Div(totalTorque.z * 10000, inertia.z) * 10)

\* v + a * dt, componentwise
Integrate(v, a, dt) ==
    Vec(v.x + MulDt(a.x, dt), v.y + MulDt(a.y, dt), v.z + MulDt(a.z, dt))

\* the position and velocity after the floor clamp fl (lines 168-171)
Floored(d, p, v, fl) ==
    [d EXCEPT !.position = Vec(p.x, fl.y, p.z), !.velocity = Vec(v.x, fl.vy, v.z)]

\* position += velocity * dt with the new velocity v, then the floor
Translate(d, dt, v, p) == Floored(d, p, v, FloorClamp(p.y, v.y))

\* angles += angularVelocity * dt with the new angular velocity w, then
\* normalizeAngle (lines 180-193)
Rotate(d, dt, w) ==
    [d EXCEPT !.angularVelocity = w,
              !.rotation = Angles(normalizeAngle(d.rotation.roll + MulDt(w.x, dt)),
                                  normalizeAngle(d.rotation.pitch + MulDt(w.z, dt)),
                                  normalizeAngle(d.rotation.yaw + MulDt(w.y, dt)))]

\* the two integrations of Drone.update with the new velocities v and w
Advance(d, dt, v, w) == Rotate(Translate(d, dt, v, Integrate(d.position, v, dt)), dt, w)

\* Drone.update(dt, externalForces, externalTorques)
DroneUpdate(d, dt, externalForces, externalTorques) ==
    Advance(d, dt,
            Integrate(d.velocity,
                      LinearAcceleration(d, calculateTotalForce(d, externalForces)), dt),
            Integrate(d.angularVelocity,
                      AngularAcceleration(calculateTotalTorque(d, externalTorques),
                                          calculateInertia(d)), dt))

\* variant: the speeds stored as given
setMotorSpeedsRaw(d, speeds) == [d EXCEPT !.motorSpeeds = speeds]

\* Drone.setMotorSpeeds(speeds)
setMotorSpeeds(d, speeds) ==
    [d EXCEPT !.motorSpeeds = [i \in 1..4 |-> Clamp(0, Scale, speeds[i])]]

\* Drone.reset()
DroneReset(d) ==
    [d EXCEPT !.position = Vec(0, 2000, 0), !.velocity = ZeroVec,
              !.rotation = ZeroAngles, !.angularVelocity = ZeroVec,
              !.motorSpeeds = <<500, 500, 500, 500>>]

\* Drone.getState(): a copy of the five state fields
getState(d) ==
    [position |-> d.position, velocity |-> d.velocity, rotation |-> d.rotation,
     angularVelocity |-> d.angularVelocity, motorSpeeds |-> d.motorSpeeds]


(***************************************************************************)
(* LyapunovController                                                      *)
(***************************************************************************)
MaxIntegralError == 10000
MaxControlForce == 20000
MaxControlTorque == 5000
MaxTiltAngle == Pi \div 6
ThrustEpsilon == 100

Gains(kpP, kdP, kiP, kpR, kdR, kiR) ==
    [kpPos |-> kpP, kdPos |-> kdP, kiPos |-> kiP,
     kpRot |-> kpR, kdRot |-> kdR, kiRot |-> kiR]

\* the gains Simulation.init passes to the controller (and the page shows)
DefaultGains == Gains(10000, 5000, 100, 8000, 4000, 50)

\* new LyapunovController(params) as in Simulation.init
ControllerInit ==
    [gains |-> DefaultGains,
     targetPosition |-> Vec(0, 2000, 0), targetRotation |-> ZeroAngles,
     integralPosError |-> ZeroVec, integralRotError |-> ZeroAngles,
     lyapunovValue |-> 0]

\* LyapunovController.updateParameters(params): params holds all six gains
updateParameters(c, params) == [c EXCEPT !.gains = params]

setTargetPosition(c, x, y, z) == [c EXCEPT !.targetPosition = Vec(x, y, z)]

setTargetRotation(c, roll, pitch, yaw) ==
    [c EXCEPT !.targetRotation = Angles(roll, pitch, yaw)]

calculatePositionError(c, dronePosition) ==
    Vec(c.targetPosition.x - dronePosition.x,
        c.targetPosition.y - dronePosition.y,
        c.targetPosition.z - dronePosition.z)

calculateRotationError(c, droneRotation) ==
    Angles(normalizeAngle(c.targetRotation.roll - droneRotation.roll),
           normalizeAngle(c.targetRotation.pitch - droneRotation.pitch),
           normalizeAngle(c.targetRotation.yaw - droneRotation.yaw))

\* V = 0.5 (|posError|^2 + |rotError|^2 + |velocity|^2 + |angularVelocity|^2)
calculateLyapunovFunction(c, d) ==
    Div(SquaredNorm(calculatePositionError(c, d.position))
        + SquaredAngles(calculateRotationError(c, d.rotation))
        + SquaredNorm(d.velocity) + SquaredNorm(d.angularVelocity), 2)

\* variant: the accumulator without the anti-windup clamp
AccumulateUnclamped(integral, error, dt) == integral + MulDt(error, dt)

\* one integral accumulator: add error * dt, then the anti-windup clamp
Accumulate(integral, error, dt) ==
    Clamp(-MaxIntegralError, MaxIntegralError, integral + MulDt(error, dt))

\* variant: the vector is returned as summed, whatever its magnitude
CapToNone(v, cap, m) == v

\* v rescaled to magnitude cap when its magnitude m exceeds cap
CapTo(v, cap, m) == IF m > cap THEN ScaleVec(v, Div(cap * Scale, m)) ELSE v

CapMagnitude(v, cap) == CapTo(v, cap, Magnitude(v))

\* the PID sum of computePositionControl (lines 322-360)
PositionSum(c, d, error, integral) ==
    Vec(Mul(c.gains.kpPos, error.x) + Mul(c.gains.kiPos, integral.x)
           - Mul(c.gains.kdPos, d.velocity.x),
        Mul(c.gains.kpPos, error.y) + Mul(c.gains.kiPos, integral.y)
           - Mul(c.gains.kdPos, d.velocity.y),
        Mul(c.gains.kpPos, error.z) + Mul(c.gains.kiPos, integral.z)
           - Mul(c.gains.kdPos, d.velocity.z))

\* the sum capped at maxControlForce (lines 362-369)
PositionForce(c, d, error, integral) ==
    CapMagnitude(PositionSum(c, d, error, integral), MaxControlForce)

PositionControl(c, d, error, integral) ==
    [integral |-> integral, force |-> PositionForce(c, d, error, integral)]

\* the integral of computePositionControl (lines 329-337)
PositionIntegral(c, error, dt) ==
    Vec(Accumulate(c.integralPosError.x, error.x, dt),
        Accumulate(c.integralPosError.y, error.y, dt),
        Accumulate(c.integralPosError.z, error.z, dt))

PositionControlOf(c, d, dt, error) ==
    PositionControl(c, d, error, PositionIntegral(c, error, dt))

\* computePositionControl(drone, dt): [integral, force]
computePositionControl(c, d, dt) ==
    PositionControlOf(c, d, dt, calculatePositionError(c, d.position))

\* the PID sum of computeRotationControl (lines 381-419)
RotationSum(c, d, error, integral) ==
    Vec(Mul(c.gains.kpRot, error.roll) + Mul(c.gains.kiRot, integral.roll)
           - Mul(c.gains.kdRot, d.angularVelocity.x),
        Mul(c.gains.kpRot, error.yaw) + Mul(c.gains.kiRot, integral.yaw)
           - Mul(c.gains.kdRot, d.angularVelocity.y),
        Mul(c.gains.kpRot, error.pitch) + Mul(c.gains.kiRot, integral.pitch)
           - Mul(c.gains.kdRot, d.angularVelocity.z))

\* the sum capped at maxControlTorque (lines 421-428)
RotationTorque(c, d, error, integral) ==
    CapMagnitude(RotationSum(c, d, error, integral), MaxControlTorque)

RotationControl(c, d, error, integral) ==
    [integral |-> integral, torque |-> RotationTorque(c, d, error, integral)]

\* the integral of computeRotationControl (lines 388-396)
RotationIntegral(c, error, dt) ==
    Angles(Accumulate(c.integralRotError.roll, error.roll, dt),
           Accumulate(c.integralRotError.pitch, error.pitch, dt),
           Accumulate(c.integralRotError.yaw, error.yaw, dt))

RotationControlOf(c, d, dt, error) ==
    RotationControl(c, d, error, RotationIntegral(c, error, dt))

\* computeRotationControl(drone, dt) against the target rotation `target`
\* (computeControl overrides this.targetRotation around the call): [integral, torque]
computeRotationControl(c, target, d, dt) ==
    RotationControlOf(c, d, dt,
                      calculateRotationError([c EXCEPT !.targetRotation = target],
                                             d.rotation))

\* a tilt set-point of computeControl (lines 454-467)
DesiredTilt(horizontalForce, totalThrust) ==
    IF totalThrust > ThrustEpsilon
    THEN Clamp(-MaxTiltAngle, MaxTiltAngle, Atan2(horizontalForce, totalThrust))
    ELSE 0

\* [roll, pitch] set-points for the control force
DesiredAngles(controlForce, totalThrust) ==
    [roll |-> DesiredTilt(-controlForce.z, totalThrust),
     pitch |-> DesiredTilt(controlForce.x, totalThrust)]

\* variant: the yaw command enters the four motors with the same sign
MotorMixYawCommon(thrust, rollControl, pitchControl, yawControl) ==
    <<thrust + pitchControl + yawControl,
      thrust + rollControl + yawControl,
      thrust - pitchControl + yawControl,
      thrust - rollControl + yawControl>>

\* the four motor commands before the clamp (lines 491-497)
MotorMix(thrust, rollControl, pitchControl, yawControl) ==
    <<thrust + pitchControl + yawControl,
      thrust + rollControl - yawControl,
      thrust - pitchControl + yawControl,
      thrust - rollControl - yawControl>>

\* variant: the motor commands as mixed, without the clamp
ClampSpeedsNone(mix) == mix

\* the clamp of the motor commands to [0, 1] (lines 500-502)
ClampSpeeds(mix) == [i \in 1..4 |-> Clamp(0, Scale, mix[i])]

\* forces and torques to motor commands (lines 481-497)
MixedSpeeds(d, controlForce, controlTorque) ==
    MotorMix(Div(Mul(d.mass, Gravity) * Scale, 4 * d.motorThrust)
                + Div(controlForce.y * Scale, 4 * d.motorThrust),
             Div(controlTorque.x * Scale, 2 * Mul(d.motorThrust, d.motorDistance)),
             Div(controlTorque.z * Scale, 2 * Mul(d.motorThrust, d.motorDistance)),
             Div(controlTorque.y * Scale, 4 * Mul(d.motorThrust, YawTorqueArm)))

\* forces and torques to motor speeds (lines 481-502)
MotorSpeeds(d, controlForce, controlTorque) ==
    ClampSpeeds(MixedSpeeds(d, controlForce, controlTorque))

\* this.targetRotation.roll / .pitch = desired tilt (lines 470-473)
OverrideTarget(c, desired) ==
    [c EXCEPT !.targetRotation.roll = desired.roll,
              !.targetRotation.pitch = desired.pitch]

\* variant: the overridden target orientation is left in place
RestoreTargetNone(c, originalTargetRotation) == c

\* this.targetRotation = originalTargetRotation (line 479)
RestoreTarget(c, originalTargetRotation) ==
    [c EXCEPT !.targetRotation = originalTargetRotation]

\* the controller after computeControl and what the call returns
ControlResult(c, d, V, pos, desired, rot) ==
    [controller |-> RestoreTarget([OverrideTarget(c, desired) EXCEPT
                                      !.lyapunovValue = V,
                                      !.integralPosError = pos.integral,
                                      !.integralRotError = rot.integral],
                                  c.targetRotation),
     motorSpeeds |-> MotorSpeeds(d, pos.force, rot.torque),
     controlForce |-> pos.force,
     controlTorque |-> rot.torque,
     desiredAngles |-> desired]

\* computeControl from the set-points on (lines 469-512)
ControlToward(c, d, dt, V, pos, desired) ==
    ControlResult(c, d, V, pos, desired,
                  computeRotationControl(c, OverrideTarget(c, desired).targetRotation,
                                         d, dt))

\* computeControl from the control force on (lines 444-512)
ControlFrom(c, d, dt, V, pos) ==
    ControlToward(c, d, dt, V, pos,
                  DesiredAngles(pos.force, Mul(d.mass, Gravity) + pos.force.y))

\* computeControl(drone, dt): the controller after the call and what it returns
computeControl(c, d, dt) ==
    ControlFrom(c, d, dt, calculateLyapunovFunction(c, d),
                computePositionControl(c, d, dt))

\* variant: reset() clearing the accumulators but not the cached V
ControllerResetKeepsV(c) ==
    [c EXCEPT !.integralPosError = ZeroVec, !.integralRotError = ZeroAngles]

\* LyapunovController.reset()
ControllerReset(c) ==
    [c EXCEPT !.integralPosError = ZeroVec, !.integralRotError = ZeroAngles,
              !.lyapunovValue = 0]


(***************************************************************************)
(* ExternalForces (disturbance field)                                      *)
(*                                                                         *)
(* Math.random() is an input: every call site takes its draws from a tape  *)
(* r of numbers in 0..Scale-1 (a draw of r[i] / Scale).  Projectiles are   *)
(* disabled by the constructor call in Simulation.init and no handler of   *)
(* the page enables them; they fly when the field is constructed or        *)
(* updated with pickleJarsEnabled.  A projectile's id, rotation and        *)
(* rotationSpeed serve the renderer only and are left out.                 *)
(***************************************************************************)
WindTurbulence == 200
WindDragCoefficient == 300
ImpulseDuration == 300
CollisionDistance == 500
CollisionStiffness == 50000
DistanceEpsilon == 10
PickleJarCollisionRadius == 300
SpawnDistance == 15000
JarDt == 48
JarGravity == -9810
AirResistance == 980
JarFloor == 100
VelocityEpsilon == 10
Restitution == 500
MaxJarDistance == 50000
MaxJarLifetime == 30 * TimeScale

\* disturbance parameters as the page's fields hold them
ForceParams(ws, wd, f, i, ob) ==
    [windSpeed |-> ws, windDirection |-> wd, impulseFrequency |-> f,
     impulseIntensity |-> i, obstaclesEnabled |-> ob]

\* the parameters Simulation.init passes.  The constructor reads
\* params.windSpeed || 0 etc., so windSpeed 0 stays 0 and obstacles stay off
InitForceParams == ForceParams(0, 0, 500, 5000, FALSE)

\* one outcome of generateObstacles (positions in -5..5 x 1..5 x -5..5,
\* radius in 0.3..0.8)
Obstacles ==
    {[position |-> Vec(1000, 2000, 0), radius |-> 500],
     [position |-> Vec(-2000, 3000, 1000), radius |-> 300]}

\* the projectile parameters of the constructor (lines 28-31)
JarParams(en, f, sp, imp) ==
    [pickleJarsEnabled |-> en, pickleJarFrequency |-> f, pickleJarSpeed |-> sp,
     pickleJarImpactForce |-> imp]

InitJarParams == JarParams(FALSE, 300, 3000, 10000)

ExternalForcesInit ==
    [params |-> InitForceParams,
     lastImpulseTime |-> 0, currentImpulse |-> ZeroVec, impulseStartTime |-> -1,
     jarParams |-> InitJarParams, activePickleJars |-> <<>>, lastPickleJarTime |-> 0,
     time |-> 0,
     lastForces |-> [wind |-> ZeroVec, impulse |-> ZeroVec, collision |-> ZeroVec,
                     pickleJar |-> ZeroVec, total |-> ZeroVec]]

\* ExternalForces.updateParameters(params) with the five fields of the page
ForcesUpdateParameters(e, params) == [e EXCEPT !.params = params]

\* variant: turbulence that does not scale with the wind speed
getWindForceGusty(e, r) ==
    Vec(Mul(Mul(e.params.windSpeed, Cos(Div(e.params.windDirection * Pi, 180)))
              + Mul(r[2] - 500, WindTurbulence), WindDragCoefficient),
        Mul(Mul(r[3] - 500, WindTurbulence), WindDragCoefficient),
        Mul(Mul(e.params.windSpeed, Sin(Div(e.params.windDirection * Pi, 180)))
              + Mul(r[4] - 500, WindTurbulence), WindDragCoefficient))

\* getWindForce(); draws r[1..4]
getWindForce(e, r) ==
    LET ws == e.params.windSpeed
        directionRad == Div(e.params.windDirection * Pi, 180)
        baseWindX == Mul(ws, Cos(directionRad))
        baseWindZ == Mul(ws, Sin(directionRad))
        seconds == Div(e.time * Scale, TimeScale)
        verticalWind == Div(Mul(Sin(seconds \div 2), ws) * 3, 10)
                        + Div(Mul(r[1] - 500, ws) * 2, 10)
        turbulenceX == Mul(Mul(r[2] - 500, ws), WindTurbulence)
        turbulenceY == Div(Mul(Mul(r[3] - 500, ws), WindTurbulence) * 8, 10)
        turbulenceZ == Mul(Mul(r[4] - 500, ws), WindTurbulence)
    IN  IF ws = 0 THEN ZeroVec
        ELSE Vec(Mul(baseWindX + turbulenceX, WindDragCoefficient),
                 Mul(verticalWind + turbulenceY, WindDragCoefficient),
                 Mul(baseWindZ + turbulenceZ, WindDragCoefficient))

\* a new impulse of random direction (lines 120-135); draws r[5], r[6]
NewImpulse(intensity, randomAzimuth, randomElevation) ==
    Vec(Mul(Mul(intensity, Cos(randomAzimuth)), Cos(randomElevation)),
        Mul(intensity, Sin(randomElevation)),
        Mul(Mul(intensity, Sin(randomAzimuth)), Cos(randomElevation)))

\* the first half of getImpulseForce (lines 116-135): the field with a new
\* impulse when one is due
StartImpulse(e, currentTime, r) ==
    IF /\ e.params.impulseFrequency > 0
       /\ (currentTime - e.lastImpulseTime) * e.params.impulseFrequency
             >= TimeScale * Scale
    THEN [e EXCEPT !.currentImpulse = NewImpulse(e.params.impulseIntensity,
                                                 Mul(r[5], TwoPi), Mul(r[6] - 500, Pi)),
                   !.lastImpulseTime = currentTime,
                   !.impulseStartTime = currentTime]
    ELSE e

\* variant: the impulse acts at full strength for its whole duration
CurrentImpulseSteady(e, currentTime) ==
    IF e.impulseStartTime >= 0 /\ currentTime - e.impulseStartTime < ImpulseDuration
    THEN e.currentImpulse
    ELSE ZeroVec

\* the second half of getImpulseForce (lines 138-153): the decaying impulse
CurrentImpulse(e, currentTime) ==
    IF e.impulseStartTime >= 0 /\ currentTime - e.impulseStartTime < ImpulseDuration
    THEN ScaleVec(e.currentImpulse,
                  Div((ImpulseDuration - (currentTime - e.impulseStartTime)) * Scale,
                      ImpulseDuration))
    ELSE ZeroVec

ImpulseOf(e, currentTime) == [e |-> e, force |-> CurrentImpulse(e, currentTime)]

\* getImpulseForce(currentTime): [e, force]
getImpulseForce(e, currentTime, r) == ImpulseOf(StartImpulse(e, currentTime, r), currentTime)

\* the push of one obstacle at distance `distance` along d
ObstaclePush(d, distance, forceMagnitude) ==
    Vec(Div(d.x * forceMagnitude, distance),
        Div(d.y * forceMagnitude, distance),
        Div(d.z * forceMagnitude, distance))

ObstacleAt(ob, d, distance) ==
    IF distance < CollisionDistance + ob.radius /\ distance > DistanceEpsilon
    THEN ObstaclePush(d, distance,
                      Mul(CollisionStiffness, CollisionDistance + ob.radius - distance))
    ELSE ZeroVec

ObstacleAlong(ob, d) == ObstacleAt(ob, d, Magnitude(d))

\* the repulsion of one obstacle on the drone (lines 370-394)
ObstacleForce(ob, dronePosition) ==
    ObstacleAlong(ob, Vec(dronePosition.x - ob.position.x,
                          dronePosition.y - ob.position.y,
                          dronePosition.z - ob.position.z))

RECURSIVE SumObstacleForces(_, _)
SumObstacleForces(obs, dronePosition) ==
    IF obs = {} THEN ZeroVec
    ELSE AddVec(ObstacleForce(CHOOSE o \in obs : TRUE, dronePosition),
                SumObstacleForces(obs \ {CHOOSE o \in obs : TRUE}, dronePosition))

\* checkCollisions(dronePosition)
checkCollisions(e, dronePosition) ==
    IF ~e.params.obstaclesEnabled THEN ZeroVec
    ELSE SumObstacleForces(Obstacles, dronePosition)

\* v scaled to length len (v / |v| * len), m being |v| > 0
Directed(v, m, len) ==
    Vec(Div(v.x * len, m), Div(v.y * len, m), Div(v.z * len, m))

SubVec(a, b) == Vec(a.x - b.x, a.y - b.y, a.z - b.z)

\* the spawn position of spawnPickleJar (lines 161-172); draws r[7], r[8]
SpawnPosition(dronePosition, azimuth, elevation) ==
    Vec(dronePosition.x + Mul(Mul(SpawnDistance, Cos(azimuth)), Cos(elevation)),
        dronePosition.y + Mul(SpawnDistance, Sin(elevation)),
        dronePosition.z + Mul(Mul(SpawnDistance, Sin(azimuth)), Cos(elevation)))

\* the projectile spawnPickleJar pushes (lines 174-207)
NewJar(e, dronePosition, spawnPosition) ==
    [position |-> spawnPosition,
     velocity |-> Directed(SubVec(dronePosition, spawnPosition),
                           Max(1, Magnitude(SubVec(dronePosition, spawnPosition))),
                           e.jarParams.pickleJarSpeed),
     hasCollided |-> FALSE, isFalling |-> FALSE, spawnTime |-> e.time,
     finite |-> TRUE]

\* spawnPickleJar(dronePosition)
spawnPickleJar(e, dronePosition, r) ==
    [e EXCEPT !.activePickleJars =
        Append(@, NewJar(e, dronePosition,
                         SpawnPosition(dronePosition, Mul(r[7], TwoPi),
                                       Div(Mul(r[8] - 500, Pi), 2))))]

\* the spawn check of updatePickleJars (lines 220-228)
SpawnDue(e, dronePosition, r) ==
    IF /\ e.jarParams.pickleJarFrequency > 0
       /\ (e.time - e.lastPickleJarTime) * e.jarParams.pickleJarFrequency
             >= TimeScale * Scale
    THEN [spawnPickleJar(e, dronePosition, r) EXCEPT !.lastPickleJarTime = e.time]
    ELSE e

\* gravity, air resistance and the position step of a projectile
\* (lines 237-254).  A projectile whose velocity is NaN (finite = FALSE)
\* keeps NaN: its position record stays at the last finite value, which
\* the comparisons of the loop no longer see.
JarVelocity(jar) ==
    IF ~jar.finite THEN jar.velocity
    ELSE IF jar.isFalling
    THEN Vec(Mul(jar.velocity.x, AirResistance),
             jar.velocity.y + MulDt(JarGravity, JarDt),
             Mul(jar.velocity.z, AirResistance))
    ELSE jar.velocity

JarAt(jar, v) ==
    [jar EXCEPT !.velocity = v,
                !.position = IF jar.finite
                             THEN Vec(@.x + MulDt(v.x, JarDt), @.y + MulDt(v.y, JarDt),
                                      @.z + MulDt(v.z, JarDt))
                             ELSE @]

JarMoved(jar) == JarAt(jar, JarVelocity(jar))

\* a falling projectile has reached the ground (line 262); NaN <= 0.1 is
\* false
JarLanded(jar) == jar.finite /\ jar.position.y <= JarFloor /\ jar.isFalling

\* variant: the collision test is made for falling projectiles too
JarCanHitAlways(jar) == TRUE

\* the projectile may still hit the drone (line 270)
JarCanHit(jar) == ~jar.hasCollided /\ ~jar.isFalling

\* the velocity after the bounce (lines 297-322): reflected about the
\* normal n (length Scale), halved, and deflected by draws r[9..11]
Bounced(v, n, dot, r) ==
    Vec(Mul(v.x - 2 * Mul(dot, n.x), Restitution) + 2 * (r[9] - 500),
        Mul(v.y - 2 * Mul(dot, n.y), Restitution) + 2 * (r[10] - 500),
        Mul(v.z - 2 * Mul(dot, n.z), Restitution) + 2 * (r[11] - 500))

BounceOff(jar, n, r) ==
    [jar EXCEPT !.velocity = Bounced(jar.velocity, n,
                                     Mul(jar.velocity.x, n.x) + Mul(jar.velocity.y, n.y)
                                        + Mul(jar.velocity.z, n.z), r),
                !.hasCollided = TRUE, !.isFalling = TRUE]

\* the bounce at distance 0: normalX = dx / distance is 0 / 0 = NaN
\* (lines 299-301) and so is the velocity from then on
BounceOffNaN(jar) ==
    [jar EXCEPT !.finite = FALSE, !.hasCollided = TRUE, !.isFalling = TRUE]

\* the collision branch (lines 277-331) for a projectile at offset d from
\* the drone, at distance dist, with speed m: [jar, force]
JarHit(e, jar, d, dist, m, r) ==
    IF jar.finite /\ dist < PickleJarCollisionRadius /\ m > VelocityEpsilon
    THEN [jar |-> IF dist = 0 THEN BounceOffNaN(jar)
                  ELSE BounceOff(jar, Directed(d, dist, Scale), r),
          force |-> Directed(jar.velocity, m, e.jarParams.pickleJarImpactForce)]
    ELSE [jar |-> jar, force |-> ZeroVec]

JarCollision(e, jar, dronePosition, r) ==
    IF JarCanHit(jar)
    THEN JarHit(e, jar, SubVec(jar.position, dronePosition),
                Magnitude(SubVec(jar.position, dronePosition)),
                Magnitude(jar.velocity), r)
    ELSE [jar |-> jar, force |-> ZeroVec]

\* variant: only the distance from the origin removes a projectile
JarExpiredFar(e, jar) == Magnitude(jar.position) > MaxJarDistance

\* too far from the origin or too old (lines 342-352)
JarExpired(e, jar) ==
    \/ Magnitude(jar.position) > MaxJarDistance
    \/ e.time - jar.spawnTime > MaxJarLifetime

\* one pass of the loop of updatePickleJars for one projectile:
\* [jar, force, removed]
JarOutcome(e, hit) ==
    [jar |-> hit.jar, force |-> hit.force, removed |-> JarExpired(e, hit.jar)]

JarAfterMove(e, moved, dronePosition, r) ==
    IF JarLanded(moved)
    THEN [jar |-> moved, force |-> ZeroVec, removed |-> TRUE]
    ELSE JarOutcome(e, JarCollision(e, moved, dronePosition, r))

JarUpdate(e, jar, dronePosition, r) == JarAfterMove(e, JarMoved(jar), dronePosition, r)

RECURSIVE SumJarForces(_)
SumJarForces(outs) ==
    IF outs = <<>> THEN ZeroVec ELSE AddVec(Head(outs).force, SumJarForces(Tail(outs)))

RECURSIVE KeptJars(_)
KeptJars(outs) ==
    IF outs = <<>> THEN <<>>
    ELSE IF Head(outs).removed THEN KeptJars(Tail(outs))
    ELSE <<Head(outs).jar>> \o KeptJars(Tail(outs))

JarsUpdated(e, outs) ==
    [e |-> [e EXCEPT !.activePickleJars = KeptJars(outs)], force |-> SumJarForces(outs)]

JarsAfterSpawn(e, dronePosition, r) ==
    JarsUpdated(e, [k \in 1..Len(e.activePickleJars) |->
                       JarUpdate(e, e.activePickleJars[k], dronePosition, r)])

\* updatePickleJars(dronePosition, dt): [e, force]
updatePickleJars(e, dronePosition, r) ==
    IF ~e.jarParams.pickleJarsEnabled THEN [e |-> e, force |-> ZeroVec]
    ELSE JarsAfterSpawn(SpawnDue(e, dronePosition, r), dronePosition, r)

\* the record kept in lastForces (lines 412-421)
TotalForces(e, windForce, impulseForce, collisionForce, pickleJarForce) ==
    [e EXCEPT !.lastForces =
        [wind |-> windForce, impulse |-> impulseForce,
         collision |-> collisionForce, pickleJar |-> pickleJarForce,
         total |-> AddVec(AddVec(windForce, impulseForce),
                          AddVec(collisionForce, pickleJarForce))]]

ForcesWithJars(jars, windForce, impulseForce, collisionForce) ==
    TotalForces(jars.e, windForce, impulseForce, collisionForce, jars.force)

ForcesWithImpulse(imp, windForce, collisionForce, dronePosition, r) ==
    ForcesWithJars(updatePickleJars(imp.e, dronePosition, r), windForce, imp.force,
                   collisionForce)

\* getTotalExternalForces(dronePosition, currentTime): the field after the
\* call; the returned vector is its lastForces.total
getTotalExternalForces(e, dronePosition, currentTime, r) ==
    ForcesWithImpulse(getImpulseForce([e EXCEPT !.time = currentTime], currentTime, r),
                      getWindForce([e EXCEPT !.time = currentTime], r),
                      checkCollisions(e, dronePosition), dronePosition, r)

\* ExternalForces.reset()
ForcesReset(e) ==
    [e EXCEPT !.lastImpulseTime = 0, !.impulseStartTime = -1,
              !.currentImpulse = ZeroVec, !.lastPickleJarTime = 0,
              !.activePickleJars = <<>>, !.time = 0]


(***************************************************************************)
(* KeyboardControl                                                         *)
(***************************************************************************)
MoveSpeed == 2000
VerticalSpeed == 1500
MinTargetHeight == 500
MaxTargetDistance == 15000

\* the keys the model presses (of w, a, s, d, shift, space)
Keys == {"w", "space"}

KeyboardInit == [enabled |-> FALSE, keys |-> {}]

\* KeyboardControl.update(dt): the controller with the target moved
KeyboardUpdate(kb, c, dt) ==
    LET dx == (IF "w" \in kb.keys THEN MulDt(MoveSpeed, dt) ELSE 0)
              - (IF "s" \in kb.keys THEN MulDt(MoveSpeed, dt) ELSE 0)
        dz == (IF "a" \in kb.keys THEN MulDt(MoveSpeed, dt) ELSE 0)
              - (IF "d" \in kb.keys THEN MulDt(MoveSpeed, dt) ELSE 0)
        dy == (IF "space" \in kb.keys THEN MulDt(VerticalSpeed, dt) ELSE 0)
              - (IF "shift" \in kb.keys THEN MulDt(VerticalSpeed, dt) ELSE 0)
        newX == c.targetPosition.x + dx
        newY == Max(MinTargetHeight, c.targetPosition.y + dy)
        newZ == c.targetPosition.z + dz
    IN  IF ~kb.enabled THEN c
        ELSE IF Magnitude(Vec(newX, 0, newZ)) <= MaxTargetDistance
             THEN setTargetPosition(c, newX, newY, newZ)
             ELSE c

\* KeyboardControl.toggle(): switching on sets the target to the drone position
KeyboardToggle(kb, c, d) ==
    [kb |-> [kb EXCEPT !.enabled = ~kb.enabled],
     controller |-> IF ~kb.enabled
                    THEN setTargetPosition(c, d.position.x, d.position.y, d.position.z)
                    ELSE c]

(***************************************************************************)
(* Simulation                                                              *)
(***************************************************************************)
FixedTimeStep == 50
MaxAccumulator == 750
MaxDeltaTime == 300

\* wall-clock time between two animation frames, in ticks: none, one
\* physics step, a slow frame, a stall beyond the 0.1 s cap
DeltaTimes == {0, FixedTimeStep, 130, 400}

\* tapes of Math.random() draws for one physics step (wind 1..4, impulse 5..6)
RandTapes == {<<250, 750, 250, 750, 250, 750>>, <<750, 250, 750, 250, 750, 250>>}

\* bounds of the model
MaxTime == 300
MaxHeldHeight == 2000
MaxRaf == 2
MaxLoops == 2
TestSteps == 3
TotalIterations == 2

VARIABLES
    pc,          \* "idle", "frame" (in animate's while loop), "trial" (in evaluateParams)
    sim,         \* Simulation: isRunning, isPaused, time, accumulator
    rafPending,  \* requestAnimationFrame callbacks queued, each a call of animate()
    drone,       \* Drone
    controller,  \* LyapunovController
    forces,      \* ExternalForces
    keyboard,    \* KeyboardControl: enabled, keys held
    ui,          \* the page's input fields read by UIManager.getCurrentParameters
    viz,         \* the snapshot last handed to Visualization.updateDrone
    training,    \* TrainingMode
    loops,       \* runIterations activations suspended in sleep(100), oldest first
    trial        \* locals of the running evaluateParams / runIterations iteration

vars == <<pc, sim, rafPending, drone, controller, forces, keyboard, ui, viz,
          training, loops, trial>>

\* Simulation.updatePhysics(dt) at simulated time `time`
\* step 4 of updatePhysics: drone.update with the forces just computed
PhysicsUpdate(d, c, e, dt) ==
    [drone |-> DroneUpdate(d, dt, e.lastForces.total, ZeroVec),
     controller |-> c,
     forces |-> e]

\* step 3 of updatePhysics: getTotalExternalForces at the drone's position
PhysicsForces(d, c, e, time, dt, r) ==
    PhysicsUpdate(d, c, getTotalExternalForces(e, d.position, time, r), dt)

\* variant: the drone is updated with the motor speeds of the previous tick
PhysicsMotorsStale(d, e, time, dt, r, control) ==
    PhysicsForces(d, control.controller, e, time, dt, r)

\* step 2 of updatePhysics: setMotorSpeeds with the speeds of the control
PhysicsMotors(d, e, time, dt, r, control) ==
    PhysicsForces(setMotorSpeeds(d, control.motorSpeeds), control.controller,
                  e, time, dt, r)

\* Simulation.updatePhysics(dt) at simulated time `time`; step 1 is
\* computeControl
updatePhysics(d, c, e, time, dt, r) ==
    PhysicsMotors(d, e, time, dt, r, computeControl(c, d, dt))

\* one pass of the fixed-step body shared by animate (lines 297-302) and
\* evaluateParams (lines 205-212): keyboard, physics, then the clock
PhysicsTick(r) ==
    \E next \in {updatePhysics(drone, KeyboardUpdate(keyboard, controller, FixedTimeStep),
                               forces, sim.time, FixedTimeStep, r)} :
        /\ drone' = next.drone
        /\ controller' = next.controller
        /\ forces' = next.forces

SimInit == [isRunning |-> FALSE, isPaused |-> FALSE, time |-> 0, accumulator |-> 0]


\* Simulation.reset(): the parts of the state it rewrites
SimulationReset ==
    /\ drone' = DroneReset(drone)
    /\ controller' = ControllerReset(controller)
    /\ forces' = ForcesReset(forces)
    /\ keyboard' = [keyboard EXCEPT !.keys = {}]
    /\ sim' = [sim EXCEPT !.time = 0, !.accumulator = 0]
    /\ viz' = getState(DroneReset(drone))

(***************************************************************************)
(* TrainingMode                                                            *)
(***************************************************************************)
ExploreIterations == 10
SettleThreshold == 500
SettleWindow == 100
Infinity == 2 * 1000000000

\* bestParams = null
NoParams == Gains(-1, -1, -1, -1, -1, -1)

GainKeys == {"kpPos", "kdPos", "kiPos", "kpRot", "kdRot", "kiRot"}

\* paramRanges
paramRanges ==
    [kpPos |-> [min |-> 5000, max |-> 20000],
     kdPos |-> [min |-> 2000, max |-> 10000],
     kiPos |-> [min |-> 50, max |-> 500],
     kpRot |-> [min |-> 5000, max |-> 15000],
     kdRot |-> [min |-> 2000, max |-> 8000],
     kiRot |-> [min |-> 10, max |-> 200]]

\* the disturbance parameters of setupTestConditions
TestForceParams == ForceParams(6000, 45, 2000, 12000, FALSE)

\* tapes of Math.random() draws for one generated gain vector, one per key
ParamTapes ==
    {[kpPos |-> 0, kdPos |-> 999, kiPos |-> 0, kpRot |-> 999, kdRot |-> 0, kiRot |-> 999],
     [kpPos |-> 999, kdPos |-> 300, kiPos |-> 999, kpRot |-> 300, kdRot |-> 999, kiRot |-> 300]}

\* generateRandomParams()
generateRandomParams(t) ==
    [k \in GainKeys |->
        paramRanges[k].min + Mul(t[k], paramRanges[k].max - paramRanges[k].min)]

\* variant: the perturbed gain without the clamp into its range
ImprovedGainUnclamped(best, range, draw) ==
    best + Div(Mul(draw - 500, range.max - range.min) * 2, 10)

\* one gain of generateImprovedParams: best + noise, clamped into its range
ImprovedGain(best, range, draw) ==
    LET noise == Div(Mul(draw - 500, range.max - range.min) * 2, 10)
    IN  Max(range.min, Min(range.max, best + noise))

\* generateImprovedParams()
generateImprovedParams(bestParams, t) ==
    IF bestParams = NoParams THEN generateRandomParams(t)
    ELSE [k \in GainKeys |-> ImprovedGain(bestParams[k], paramRanges[k], t[k])]

\* the gain vector runIterations tests in iteration i (lines 106-116)
TrialParams(i, current, bestParams, t) ==
    IF i = 0 THEN current
    ELSE IF i < ExploreIterations THEN generateRandomParams(t)
    ELSE generateImprovedParams(bestParams, t)

\* q[lo] + ... + q[hi], by halves so that long traces stay shallow
RECURSIVE SumRange(_, _, _)
SumRange(q, lo, hi) ==
    IF lo > hi THEN 0
    ELSE IF lo = hi THEN q[lo]
    ELSE SumRange(q, lo, (lo + hi) \div 2) + SumRange(q, (lo + hi) \div 2 + 1, hi)

SumSeq(q) == SumRange(q, 1, Len(q))

\* the largest of q[lo..hi], lo <= hi
RECURSIVE MaxRange(_, _, _)
MaxRange(q, lo, hi) ==
    IF lo = hi THEN q[lo]
    ELSE Max(MaxRange(q, lo, (lo + hi) \div 2), MaxRange(q, (lo + hi) \div 2 + 1, hi))

MaxSeq(q) == MaxRange(q, 1, Len(q))

\* the inner loop of computeScore (lines 239-245): no value of
\* q[i .. min(i + 100, n) - 1] is above twice the threshold
StableFrom(q, i) ==
    \A j \in i .. (Min(i + SettleWindow, Len(q) + 1) - 1) : ~(q[j] > 2 * SettleThreshold)

\* settlingTime of computeScore, as a 0-based index (q is 1-based)
SettlingTime(q) ==
    LET hits == {i \in 1..Len(q) : q[i] < SettleThreshold /\ StableFrom(q, i)}
    IN  IF hits = {} THEN Len(q)
        ELSE (CHOOSE i \in hits : \A k \in hits : i <= k) - 1

\* lyapunovValues.slice(-100)
LastValues(q) ==
    IF Len(q) <= SettleWindow THEN q ELSE SubSeq(q, Len(q) - SettleWindow + 1, Len(q))

\* variant: the overshoot term subtracted instead of added
computeScoreSigned(q) == Div(4 * SumSeq(q), 10 * Len(q)) - 2 * MaxSeq(q)

\* computeScore(lyapunovValues)
computeScore(q) ==
    LET n == Len(q)
        integral == SumSeq(q)
        finalValues == LastValues(q)
        finalError == Div(SumSeq(finalValues), Len(finalValues))
    IN  Div(4 * integral, 10 * n)
        + Div(3 * SettlingTime(q) * Scale, 10 * n)
        + Div(2 * MaxSeq(q), 10)
        + Div(finalError, 10)

TrainingInit(total) ==
    [isTraining |-> FALSE, currentIteration |-> 0, totalIterations |-> total,
     history |-> <<>>, bestParams |-> NoParams, bestScore |-> Infinity]

NoTrial == [i |-> 0, params |-> NoParams, step |-> 0, lyapunovValues |-> <<>>,
            stopCalled |-> FALSE]


(***************************************************************************)
(* UIManager: the values the page's fields can be set to                   *)
(***************************************************************************)
UiGainChoices ==
    {DefaultGains,
     Gains(25000, 5000, 100, 8000, 4000, 50)}

UiForceChoices ==
    {InitForceParams,
     ForceParams(3000, 90, 1000, 8000, TRUE)}

\* UIManager.validateControllerParameters
validateControllerParameters(params) ==
    \A k \in GainKeys : ~(params[k] < 0 \/ params[k] > 50000)

\* UIManager.validateExternalForces
validateExternalForces(params) ==
    /\ ~(params.windSpeed < 0 \/ params.windSpeed > 20000)
    /\ ~(params.windDirection < 0 \/ params.windDirection > 360)
    /\ ~(params.impulseFrequency < 0 \/ params.impulseFrequency > 5000)
    /\ ~(params.impulseIntensity < 0 \/ params.impulseIntensity > 50000)

(***************************************************************************)
(* The page after DOMContentLoaded: new Simulation(), new TrainingMode()   *)
(***************************************************************************)
Init ==
    /\ pc = "idle"
    /\ sim = SimInit
    /\ rafPending = 0
    /\ drone = DroneInit
    /\ controller = ControllerInit
    /\ forces = ExternalForcesInit
    /\ keyboard = KeyboardInit
    /\ ui = [controller |-> DefaultGains, forces |-> InitForceParams]
    /\ viz = getState(DroneInit)
    /\ training = TrainingInit(TotalIterations)
    /\ loops = <<>>
    /\ trial = NoTrial

(***************************************************************************)
(* Simulation: buttons and the animation frame                             *)
(***************************************************************************)
\* UIManager.onStart -> Simulation.start(): sets the flags and calls
\* animate(), which queues the next frame and enters the frame body with
\* no wall time elapsed since lastTime was taken
Start ==
    /\ pc = "idle"
    /\ ~sim.isRunning
    /\ rafPending < MaxRaf
    /\ sim' = [sim EXCEPT !.isRunning = TRUE, !.isPaused = FALSE,
                          !.accumulator = Min(sim.accumulator, MaxAccumulator)]
    /\ rafPending' = rafPending + 1
    /\ pc' = "frame"
    /\ UNCHANGED <<drone, controller, forces, keyboard, ui, viz, training, loops, trial>>

\* UIManager.onPause -> Simulation.pause()
Pause ==
    /\ pc = "idle"
    /\ sim' = [sim EXCEPT !.isPaused = ~sim.isPaused]
    /\ UNCHANGED <<pc, rafPending, drone, controller, forces, keyboard, ui, viz,
                   training, loops, trial>>

\* UIManager.onStop -> Simulation.stop()
Stop ==
    /\ pc = "idle"
    /\ sim' = [sim EXCEPT !.isRunning = FALSE, !.isPaused = FALSE]
    /\ UNCHANGED <<pc, rafPending, drone, controller, forces, keyboard, ui, viz,
                   training, loops, trial>>

\* UIManager.onReset -> Simulation.reset()
Reset ==
    /\ pc = "idle"
    /\ SimulationReset
    /\ UNCHANGED <<pc, rafPending, ui, training, loops, trial>>

\* a queued animation frame fires after the loop was stopped: animate()
\* returns at once and requests nothing
RafStopped ==
    /\ pc = "idle"
    /\ rafPending > 0
    /\ ~sim.isRunning
    /\ rafPending' = rafPending - 1
    /\ UNCHANGED <<pc, sim, drone, controller, forces, keyboard, ui, viz,
                   training, loops, trial>>

\* a queued animation frame fires while paused: animate() requests the next
\* frame, renders and returns
RafPaused ==
    /\ pc = "idle"
    /\ rafPending > 0
    /\ sim.isRunning /\ sim.isPaused
    /\ UNCHANGED vars

\* variant: animate() without the 0.1 s cap of deltaTime
RafFireUncapped ==
    /\ pc = "idle"
    /\ rafPending > 0
    /\ sim.isRunning /\ ~sim.isPaused
    /\ \E deltaTime \in DeltaTimes :
          /\ sim.time + Min(sim.accumulator + deltaTime, MaxAccumulator) <= MaxTime + MaxAccumulator
          /\ sim' = [sim EXCEPT !.accumulator =
                                   Min(sim.accumulator + deltaTime, MaxAccumulator)]
    /\ pc' = "frame"
    /\ UNCHANGED <<rafPending, drone, controller, forces, keyboard, ui, viz,
                   training, loops, trial>>

\* a queued animation frame fires: animate() up to its while loop
\* (lines 267-293), deltaTime being the wall time since the last frame
RafFire ==
    /\ pc = "idle"
    /\ rafPending > 0
    /\ sim.isRunning /\ ~sim.isPaused
    /\ \E deltaTime \in DeltaTimes :
          LET acc == Min(sim.accumulator + Min(deltaTime, MaxDeltaTime), MaxAccumulator)
          IN  /\ sim.time + acc <= MaxTime
              /\ sim' = [sim EXCEPT !.accumulator = acc]
    /\ pc' = "frame"
    /\ UNCHANGED <<rafPending, drone, controller, forces, keyboard, ui, viz,
                   training, loops, trial>>

\* one iteration of animate's while loop (lines 296-303)
FrameTick ==
    /\ pc = "frame"
    /\ sim.accumulator >= FixedTimeStep
    /\ \E r \in RandTapes : PhysicsTick(r)
    /\ sim' = [sim EXCEPT !.accumulator = sim.accumulator - FixedTimeStep,
                          !.time = sim.time + FixedTimeStep]
    /\ UNCHANGED <<pc, rafPending, keyboard, ui, viz, training, loops, trial>>

\* the rest of animate (lines 305-334): the visualization gets the state
FrameEnd ==
    /\ pc = "frame"
    /\ sim.accumulator < FixedTimeStep
    /\ viz' = getState(drone)
    /\ pc' = "idle"
    /\ UNCHANGED <<sim, rafPending, drone, controller, forces, keyboard, ui,
                   training, loops, trial>>

(***************************************************************************)
(* KeyboardControl handlers                                                *)
(***************************************************************************)
\* onKeyDown with key k: toggle()
KeyK ==
    /\ pc = "idle"
    /\ keyboard' = KeyboardToggle(keyboard, controller, drone).kb
    /\ controller' = KeyboardToggle(keyboard, controller, drone).controller
    /\ UNCHANGED <<pc, sim, rafPending, drone, forces, ui, viz, training, loops, trial>>

\* onKeyDown with a movement key: ignored unless enabled
KeyDown(k) ==
    /\ pc = "idle"
    /\ keyboard.enabled
    /\ k \notin keyboard.keys
    /\ controller.targetPosition.y <= MaxHeldHeight
    /\ keyboard' = [keyboard EXCEPT !.keys = @ \cup {k}]
    /\ UNCHANGED <<pc, sim, rafPending, drone, controller, forces, ui, viz,
                   training, loops, trial>>

\* onKeyUp
KeyUp(k) ==
    /\ pc = "idle"
    /\ k \in keyboard.keys
    /\ keyboard' = [keyboard EXCEPT !.keys = @ \ {k}]
    /\ UNCHANGED <<pc, sim, rafPending, drone, controller, forces, ui, viz,
                   training, loops, trial>>

(***************************************************************************)
(* UIManager change handlers                                               *)
(***************************************************************************)
\* a gain field changes: UIManager.updateControllerParameters
ChangeControllerFields(g) ==
    /\ pc = "idle"
    /\ g # ui.controller
    /\ ui' = [ui EXCEPT !.controller = g]
    /\ controller' = IF validateControllerParameters(g)
                     THEN updateParameters(controller, g)
                     ELSE controller
    /\ UNCHANGED <<pc, sim, rafPending, drone, forces, keyboard, viz, training,
                   loops, trial>>

\* a disturbance field changes: UIManager.updateExternalForces
ChangeForceFields(p) ==
    /\ pc = "idle"
    /\ p # ui.forces
    /\ ui' = [ui EXCEPT !.forces = p]
    /\ forces' = IF validateExternalForces(p)
                 THEN ForcesUpdateParameters(forces, p)
                 ELSE forces
    /\ UNCHANGED <<pc, sim, rafPending, drone, controller, keyboard, viz, training,
                   loops, trial>>

(***************************************************************************)
(* TrainingMode: startTraining, runIterations, evaluateParams              *)
(*                                                                         *)
(* evaluateParams holds no await, so an iteration of runIterations runs    *)
(* from its poll of isTraining to its sleep(100) without any other handler *)
(* in between; pc = "trial" marks the positions inside it.  The loop is    *)
(* suspended only in sleep(100); timers of equal delay fire in the order   *)
(* they were set, so the suspended loops wake oldest first.                *)
(***************************************************************************)
TrialStartPosition == Vec(2000, 3000, -1500)

\* one iteration of runIterations from line 103 to the loop of
\* evaluateParams (line 204), entered with simulation flags s, keyboard kb
\* and disturbance field e.  Simulation.start() inside it calls animate(),
\* which queues a frame, runs no tick (the accumulator was just reset) and
\* shows the drone.
BeginTrial(i, params, stopCalled, s, kb, e) ==
    LET d == [DroneReset(drone) EXCEPT !.position = TrialStartPosition,
                                       !.velocity = ZeroVec]
        c == ControllerReset(updateParameters(controller, params))
        starts == ~s.isRunning
    IN  /\ drone' = d
        /\ controller' = setTargetPosition(c, 0, 2000, 0)
        /\ forces' = ForcesReset(e)
        /\ keyboard' = [kb EXCEPT !.keys = {}]
        /\ sim' = [isRunning |-> TRUE,
                   isPaused |-> IF starts THEN FALSE ELSE s.isPaused,
                   time |-> 0, accumulator |-> 0]
        /\ rafPending' = IF starts THEN rafPending + 1 ELSE rafPending
        /\ viz' = IF starts THEN getState(d) ELSE getState(DroneReset(drone))
        /\ trial' = [i |-> i, params |-> params, step |-> 0,
                     lyapunovValues |-> <<>>, stopCalled |-> stopCalled]
        /\ pc' = "trial"

\* TrainingMode.startTraining() up to the loop of the first evaluateParams
StartTraining ==
    /\ pc = "idle"
    /\ ~training.isTraining
    /\ Len(loops) < MaxLoops
    /\ rafPending < MaxRaf
    /\ 0 < training.totalIterations
    /\ training.totalIterations <= TotalIterations
    /\ training' = [training EXCEPT !.isTraining = TRUE, !.currentIteration = 1,
                                    !.history = <<>>, !.bestScore = Infinity]
    /\ \E t \in ParamTapes :
          BeginTrial(0, TrialParams(0, ui.controller, training.bestParams, t), FALSE,
                     [sim EXCEPT !.isRunning = FALSE, !.isPaused = FALSE],
                     [keyboard EXCEPT !.enabled = FALSE],
                     ForcesUpdateParameters(forces, TestForceParams))
    /\ UNCHANGED <<ui, loops>>

\* one pass of the loop of evaluateParams (lines 204-214)
TrialStep ==
    /\ pc = "trial"
    /\ trial.step < TestSteps
    /\ \E r \in RandTapes : PhysicsTick(r)
    /\ trial' = [trial EXCEPT !.step = @ + 1,
                              !.lyapunovValues = Append(@, controller'.lyapunovValue)]
    /\ sim' = [sim EXCEPT !.time = sim.time + FixedTimeStep]
    /\ UNCHANGED <<pc, rafPending, keyboard, ui, viz, training, loops>>

\* the end of evaluateParams and the rest of the iteration (lines 216-221
\* and 121-136): stop, score, record, best, sleep
TrialEnd ==
    /\ pc = "trial"
    /\ trial.step = TestSteps
    /\ sim' = [sim EXCEPT !.isRunning = FALSE, !.isPaused = FALSE]
    /\ \E score \in {computeScore(trial.lyapunovValues)} :
          training' = [training EXCEPT
                         !.history = Append(@, [params |-> trial.params,
                                                score |-> score,
                                                iteration |-> trial.i + 1]),
                         !.bestScore = IF score < @ THEN score ELSE @,
                         !.bestParams = IF score < training.bestScore
                                        THEN trial.params ELSE @]
    /\ loops' = Append(loops, [i |-> trial.i, stopCalled |-> trial.stopCalled])
    /\ trial' = NoTrial
    /\ pc' = "idle"
    /\ UNCHANGED <<rafPending, drone, controller, forces, keyboard, ui, viz>>

\* sleep(100) of the oldest suspended loop ends and the loop goes on to its
\* next iteration (lines 97-116)
WakeTrial ==
    /\ pc = "idle"
    /\ loops # <<>>
    /\ Head(loops).i + 1 < training.totalIterations
    /\ training.isTraining
    /\ sim.isRunning \/ rafPending < MaxRaf
    /\ training' = [training EXCEPT !.currentIteration = Head(loops).i + 2]
    /\ \E t \in ParamTapes :
          BeginTrial(Head(loops).i + 1,
                     TrialParams(Head(loops).i + 1, ui.controller, training.bestParams, t),
                     Head(loops).stopCalled, sim, keyboard, forces)
    /\ loops' = Tail(loops)
    /\ UNCHANGED ui

\* sleep(100) of the oldest suspended loop ends and the loop leaves: the
\* iterations are used up or isTraining is off; finishTraining()
WakeFinish ==
    /\ pc = "idle"
    /\ loops # <<>>
    /\ ~(Head(loops).i + 1 < training.totalIterations /\ training.isTraining)
    /\ training' = [training EXCEPT !.isTraining = FALSE]
    /\ loops' = Tail(loops)
    /\ UNCHANGED <<pc, sim, rafPending, drone, controller, forces, keyboard, ui, viz, trial>>

\* TrainingMode.stopTraining(); every loop suspended now has been told to stop
StopTraining ==
    /\ pc = "idle"
    /\ training.isTraining
    /\ training' = [training EXCEPT !.isTraining = FALSE]
    /\ loops' = [n \in 1..Len(loops) |-> [loops[n] EXCEPT !.stopCalled = TRUE]]
    /\ UNCHANGED <<pc, sim, rafPending, drone, controller, forces, keyboard, ui, viz, trial>>

Next ==
    \/ Start
    \/ Pause
    \/ Stop
    \/ Reset
    \/ RafStopped
    \/ RafPaused
    \/ RafFire
    \/ FrameTick
    \/ FrameEnd
    \/ KeyK
    \/ \E k \in Keys : KeyDown(k)
    \/ \E k \in Keys : KeyUp(k)
    \/ \E g \in UiGainChoices : ChangeControllerFields(g)
    \/ \E p \in UiForceChoices : ChangeForceFields(p)
    \/ StartTraining
    \/ TrialStep
    \/ TrialEnd
    \/ WakeTrial
    \/ WakeFinish
    \/ StopTraining

Spec == Init /\ [][Next]_vars

(***************************************************************************)
(* The page without the keyboard: buttons, frames and field changes        *)
(***************************************************************************)
NextPage ==
    \/ Start
    \/ Pause
    \/ Stop
    \/ Reset
    \/ RafStopped
    \/ RafPaused
    \/ RafFire
    \/ FrameTick
    \/ FrameEnd
    \/ \E g \in UiGainChoices : ChangeControllerFields(g)
    \/ \E p \in UiForceChoices : ChangeForceFields(p)

SpecPage == Init /\ [][NextPage]_vars

(***************************************************************************)
(* The gain search with the field changes and the frame callbacks that     *)
(* can fall into its sleeps                                                *)
(***************************************************************************)
NextTraining ==
    \/ StartTraining
    \/ TrialStep
    \/ TrialEnd
    \/ WakeTrial
    \/ WakeFinish
    \/ StopTraining
    \/ RafStopped
    \/ \E g \in UiGainChoices : ChangeControllerFields(g)
    \/ \E p \in UiForceChoices : ChangeForceFields(p)

SpecTraining == Init /\ [][NextTraining]_vars

(***************************************************************************)
(* One iteration of runIterations at every index up to MaxIndex: the run   *)
(* is suspended in sleep(100) after iteration n, its best vector being the *)
(* page's gains (trial 0) or a sampled vector, and one more iteration is   *)
(* left (totalIterations is 50 in the source).                             *)
(***************************************************************************)
MaxIndex == 11
SearchScore == 3100

SearchHistory(n, best) ==
    [k \in 1..(n + 1) |-> [params |-> best, score |-> SearchScore, iteration |-> k]]

InitSearch ==
    /\ pc = "idle"
    /\ sim = SimInit
    /\ rafPending = 0
    /\ drone = DroneInit
    /\ forces = ForcesUpdateParameters(ExternalForcesInit, TestForceParams)
    /\ keyboard = KeyboardInit
    /\ viz = getState(DroneInit)
    /\ trial = NoTrial
    /\ \E g \in UiGainChoices :
          /\ ui = [controller |-> g, forces |-> InitForceParams]
          /\ \E best \in {g} \cup {generateRandomParams(t) : t \in ParamTapes} :
                /\ controller = updateParameters(ControllerInit, best)
                /\ \E n \in 0..(MaxIndex - 1) :
                      /\ training = [isTraining |-> TRUE, currentIteration |-> n + 1,
                                     totalIterations |-> n + 2,
                                     history |-> SearchHistory(n, best),
                                     bestParams |-> best, bestScore |-> SearchScore]
                      /\ loops = <<[i |-> n, stopCalled |-> FALSE]>>

NextSearch ==
    \/ StartTraining
    \/ TrialStep
    \/ TrialEnd
    \/ WakeTrial
    \/ WakeFinish

SpecSearch == InitSearch /\ [][NextSearch]_vars

(***************************************************************************)
(* Drone.update on its own: any height near the floor, any sink rate, any  *)
(* attitude and thrust, any external force and torque                      *)
(***************************************************************************)
MaxUpdates == 2
DroneHeights == {FloorHeight, FloorHeight + 1, 150, 2000}
DroneSinkRates == {-20000, -3000, 0, 3000}
DroneTilts == {0, 500, -3100}
DroneThrottles == {0, Scale}
DroneForces == {ZeroVec, Vec(0, -50000, 0), Vec(3000, 9810, -3000)}
DroneTorques == {ZeroVec, Vec(100, 0, -100)}

InitDrone ==
    /\ pc = "idle"
    /\ sim = SimInit
    /\ rafPending = 0
    /\ controller = ControllerInit
    /\ keyboard = KeyboardInit
    /\ ui = [controller |-> DefaultGains, forces |-> InitForceParams]
    /\ viz = getState(DroneInit)
    /\ training = TrainingInit(TotalIterations)
    /\ loops = <<>>
    /\ trial = NoTrial
    /\ \E f \in DroneForces :
          forces = [ExternalForcesInit EXCEPT !.lastForces.total = f]
    /\ \E y \in DroneHeights, vy \in DroneSinkRates, a \in DroneTilts, m \in DroneThrottles :
          drone = [DroneInit EXCEPT !.position = Vec(0, y, 0),
                                    !.velocity = Vec(0, vy, 0),
                                    !.rotation = Angles(a, 0, 0),
                                    !.motorSpeeds = <<m, m, m, m>>]

\* drone.update(dt, externalForces, externalTorques) with the force the
\* field last computed
UpdateStep ==
    /\ pc = "idle"
    /\ sim.time < MaxUpdates * FixedTimeStep
    /\ \E t \in DroneTorques :
          drone' = DroneUpdate(drone, FixedTimeStep, forces.lastForces.total, t)
    /\ sim' = [sim EXCEPT !.time = @ + FixedTimeStep]
    /\ UNCHANGED <<pc, rafPending, controller, forces, keyboard, ui, viz, training,
                   loops, trial>>

SpecDrone == InitDrone /\ [][UpdateStep]_vars

(***************************************************************************)
(* The disturbance field with projectiles enabled, called once per fixed   *)
(* step for a drone that stays where it is; wind, impulses and obstacles   *)
(* are off                                                                 *)
(***************************************************************************)
MaxJarTime == 130000

JarConfigs == {JarParams(TRUE, 300, 3000, 10000), JarParams(TRUE, 100, 400, 10000)}

JarDronePositions == {Vec(0, 1000, 0), Vec(40000, 1000, 0)}

\* draws 7, 8: azimuth and elevation of the spawn; 9..11: the deflection
JarTape(az, el, d) == <<500, 500, 500, 500, 500, 500, az, el, d, 1000 - d, 500>>

JarTapes == {JarTape(0, 500, 250), JarTape(250, 750, 750)}

InitJars ==
    /\ pc = "idle"
    /\ sim = SimInit
    /\ rafPending = 0
    /\ controller = ControllerInit
    /\ keyboard = KeyboardInit
    /\ ui = [controller |-> DefaultGains, forces |-> InitForceParams]
    /\ viz = getState(DroneInit)
    /\ training = TrainingInit(TotalIterations)
    /\ loops = <<>>
    /\ trial = NoTrial
    /\ \E j \in JarConfigs :
          forces = [ExternalForcesInit EXCEPT !.params = ForceParams(0, 0, 0, 5000, FALSE),
                                              !.jarParams = j]
    /\ \E p \in JarDronePositions : drone = [DroneInit EXCEPT !.position = p]

\* step 3 of updatePhysics: getTotalExternalForces(drone.position, time),
\* then the clock of the fixed step
JarStep ==
    /\ pc = "idle"
    /\ sim.time < MaxJarTime
    /\ \E r \in JarTapes :
          forces' = getTotalExternalForces(forces, drone.position, sim.time, r)
    /\ sim' = [sim EXCEPT !.time = @ + FixedTimeStep]
    /\ UNCHANGED <<pc, rafPending, drone, controller, keyboard, ui, viz, training,
                   loops, trial>>

SpecJars == InitJars /\ [][JarStep]_vars

(***************************************************************************)
(* The field called for a drone held at or near an obstacle centre while   *)
(* fast projectiles fly at it: a step of 0.357 m ends 6 mm from the drone, *)
(* a step of 0.5 m ends on it                                              *)
(***************************************************************************)
MaxImpactTime == 4000

ImpactConfigs == {JarParams(TRUE, 2000, 22313, 10000), JarParams(TRUE, 2000, 31250, 10000)}

ImpactDronePositions ==
    {Vec(1000, 2000, 0), Vec(1005, 2000, 0), Vec(1200, 2000, 0), Vec(0, 1000, 0)}

InitImpact ==
    /\ pc = "idle"
    /\ sim = SimInit
    /\ rafPending = 0
    /\ controller = ControllerInit
    /\ keyboard = KeyboardInit
    /\ ui = [controller |-> DefaultGains, forces |-> InitForceParams]
    /\ viz = getState(DroneInit)
    /\ training = TrainingInit(TotalIterations)
    /\ loops = <<>>
    /\ trial = NoTrial
    /\ \E j \in ImpactConfigs :
          forces = [ExternalForcesInit EXCEPT !.params = ForceParams(0, 0, 0, 5000, TRUE),
                                              !.jarParams = j]
    /\ \E p \in ImpactDronePositions :
          drone = [DroneInit EXCEPT !.position = p]

\* externalForces.getTotalExternalForces(drone.position, time) for the held drone
ImpactStep ==
    /\ pc = "idle"
    /\ sim.time < MaxImpactTime
    /\ \E r \in JarTapes :
          forces' = getTotalExternalForces(forces, drone.position, sim.time, r)
    /\ sim' = [sim EXCEPT !.time = @ + FixedTimeStep]
    /\ UNCHANGED <<pc, rafPending, drone, controller, keyboard, ui, viz, training,
                   loops, trial>>

SpecImpact == InitImpact /\ [][ImpactStep]_vars

(***************************************************************************)
(* computeScore applied to a recorded trace of Lyapunov values: up to      *)
(* three runs of a constant level, each 1, 99 or 100 values long           *)
(***************************************************************************)
ScoreLevels == {400, SettleThreshold, 800, 1200}
ScoreRuns == {1, SettleWindow - 1, SettleWindow}

Run(v, n) == [k \in 1..n |-> v]

ScoreTraces ==
    {Run(v[1], n[1]) \o Run(v[2], n[2]) \o Run(v[3], n[3]) :
        v \in [1..3 -> ScoreLevels], n \in [1..3 -> ScoreRuns]}

InitScore ==
    /\ pc = "trial"
    /\ sim = SimInit
    /\ rafPending = 0
    /\ drone = DroneInit
    /\ controller = ControllerInit
    /\ forces = ExternalForcesInit
    /\ keyboard = KeyboardInit
    /\ ui = [controller |-> DefaultGains, forces |-> InitForceParams]
    /\ viz = getState(DroneInit)
    /\ training = TrainingInit(TotalIterations)
    /\ loops = <<>>
    /\ \E q \in ScoreTraces :
          trial = [NoTrial EXCEPT !.params = DefaultGains, !.step = Len(q),
                                  !.lyapunovValues = q]

\* the return of evaluateParams (lines 217-219), recorded as runIterations
\* records it (lines 124-128); the trace is kept for comparison
ScoreTrace ==
    /\ pc = "trial"
    /\ training' = [training EXCEPT
                      !.history = Append(@, [params |-> trial.params,
                                             score |-> computeScore(trial.lyapunovValues),
                                             iteration |-> trial.i + 1])]
    /\ pc' = "idle"
    /\ UNCHANGED <<sim, rafPending, drone, controller, forces, keyboard, ui, viz,
                   loops, trial>>

SpecScore == InitScore /\ [][ScoreTrace]_vars

(***************************************************************************)
(* What a consumer holds after drone.getState() and                        *)
(* externalForces.getLastForces().  A held object is either the field's    *)
(* own lastForces object (own) or a separate object with its own value.    *)
(* getTotalExternalForces assigns a new object to lastForces, so an object *)
(* handed out before stays as it was; a write through an own object is a   *)
(* write to the field.  In this specification viz holds the two objects.   *)
(***************************************************************************)
MaxAliasTime == 200
HeldWrites == {7777}
ForceKeys == {"wind", "impulse", "total"}

\* this.lastForces before the first getTotalExternalForces: not assigned
UndefinedForces == [undefined |-> TRUE]

ZeroForces ==
    [wind |-> ZeroVec, impulse |-> ZeroVec, collision |-> ZeroVec,
     pickleJar |-> ZeroVec, total |-> ZeroVec]

\* getLastForces(): this.lastForces itself, or a new object of zero vectors
getLastForces(e) ==
    IF e.lastForces = UndefinedForces THEN [own |-> FALSE, value |-> ZeroForces]
    ELSE [own |-> TRUE]

\* the held object once the field has moved on to a new lastForces object
Detached(held, e) ==
    IF held.own THEN [own |-> FALSE, value |-> e.lastForces] ELSE held

\* what the consumer reads through the held object
Seen(held, e) == IF held.own THEN e.lastForces ELSE held.value

InitAlias ==
    /\ pc = "idle"
    /\ sim = SimInit
    /\ rafPending = 0
    /\ drone = DroneInit
    /\ controller = ControllerInit
    /\ forces = [ExternalForcesInit EXCEPT !.lastForces = UndefinedForces]
    /\ keyboard = KeyboardInit
    /\ ui = [controller |-> DefaultGains, forces |-> InitForceParams]
    /\ viz = [state |-> getState(DroneInit), forces |-> getLastForces(forces)]
    /\ training = TrainingInit(TotalIterations)
    /\ loops = <<>>
    /\ trial = NoTrial

\* one fixed step of animate (lines 297-302)
AliasTick ==
    /\ pc = "idle"
    /\ sim.time < MaxAliasTime
    /\ \E r \in RandTapes : PhysicsTick(r)
    /\ sim' = [sim EXCEPT !.time = @ + FixedTimeStep]
    /\ viz' = [viz EXCEPT !.forces = Detached(@, forces)]
    /\ UNCHANGED <<pc, rafPending, keyboard, ui, training, loops, trial>>

\* the rendering part of animate (lines 306-323): the consumer is handed
\* the drone state and the last forces
HandOut ==
    /\ pc = "idle"
    /\ viz' = [state |-> getState(drone), forces |-> getLastForces(forces)]
    /\ UNCHANGED <<pc, sim, rafPending, drone, controller, forces, keyboard, ui,
                   training, loops, trial>>

\* the consumer writes to the object getState returned
WriteState ==
    /\ pc = "idle"
    /\ \E v \in HeldWrites : viz' = [viz EXCEPT !.state.position.x = v]
    /\ viz' # viz
    /\ UNCHANGED <<pc, sim, rafPending, drone, controller, forces, keyboard, ui,
                   training, loops, trial>>

\* the consumer writes to a vector of the object getLastForces returned
WriteForces ==
    /\ pc = "idle"
    /\ \E k \in ForceKeys, v \in HeldWrites :
          IF viz.forces.own
          THEN /\ forces' = [forces EXCEPT !.lastForces[k].x = v]
               /\ viz' = viz
          ELSE /\ viz' = [viz EXCEPT !.forces.value[k].x = v]
               /\ forces' = forces
    /\ <<viz, forces>>' # <<viz, forces>>
    /\ UNCHANGED <<pc, sim, rafPending, drone, controller, keyboard, ui, training,
                   loops, trial>>

NextAlias == AliasTick \/ HandOut \/ WriteState \/ WriteForces

SpecAlias == InitAlias /\ [][NextAlias]_vars

(***************************************************************************)
(* The disturbance field with wind and impulses, called once per fixed     *)
(* step for a drone that stays where it is, and reset with the simulation  *)
(***************************************************************************)
MaxFieldTime == 1500

WindSpeeds == {0, 3000}
WindDirections == {0, 90, 225}
ImpulseFrequencies == {0, 5000, 20000}
ImpulseIntensities == {5000}

InitField ==
    /\ pc = "idle"
    /\ sim = SimInit
    /\ rafPending = 0
    /\ drone = DroneInit
    /\ controller = ControllerInit
    /\ keyboard = KeyboardInit
    /\ ui = [controller |-> DefaultGains, forces |-> InitForceParams]
    /\ viz = getState(DroneInit)
    /\ training = TrainingInit(TotalIterations)
    /\ loops = <<>>
    /\ trial = NoTrial
    /\ \E ws \in WindSpeeds, wd \in WindDirections, f \in ImpulseFrequencies,
          i \in ImpulseIntensities :
          forces = ForcesUpdateParameters(ExternalForcesInit,
                                          ForceParams(ws, wd, f, i, FALSE))

\* step 3 of updatePhysics: getTotalExternalForces(drone.position, time),
\* then the clock of the fixed step
FieldStep ==
    /\ pc = "idle"
    /\ sim.time < MaxFieldTime
    /\ \E r \in RandTapes :
          forces' = getTotalExternalForces(forces, drone.position, sim.time, r)
    /\ sim' = [sim EXCEPT !.time = @ + FixedTimeStep]
    /\ UNCHANGED <<pc, rafPending, drone, controller, keyboard, ui, viz, training,
                   loops, trial>>

NextField == FieldStep \/ Reset

SpecField == InitField /\ [][NextField]_vars

(***************************************************************************)
(* The same calls with the impulse fields of the page changed in between   *)
(***************************************************************************)
ImpulseChoices ==
    {ForceParams(0, 0, 5000, 12000, FALSE), ForceParams(0, 0, 2000, 3000, FALSE)}

NextImpulse ==
    \/ FieldStep
    \/ Reset
    \/ \E p \in ImpulseChoices : ChangeForceFields(p)

SpecImpulse == InitField /\ [][NextImpulse]_vars

(***************************************************************************)
(* The loop of evaluateParams with default gains and no disturbance: the   *)
(* drone starts at (2, 3, -1.5) at rest, the target is (0, 2, 0), and the  *)
(* Lyapunov value of each of the 600 steps is recorded                     *)
(***************************************************************************)
DescentSteps == 600

InitDescent ==
    /\ pc = "trial"
    /\ sim = [SimInit EXCEPT !.isRunning = TRUE]
    /\ rafPending = 1
    /\ drone = [DroneReset(DroneInit) EXCEPT !.position = TrialStartPosition,
                                             !.velocity = ZeroVec]
    /\ controller = setTargetPosition(ControllerReset(ControllerInit), 0, 2000, 0)
    /\ forces = ForcesReset(ForcesUpdateParameters(ExternalForcesInit,
                                                   ForceParams(0, 0, 0, 0, FALSE)))
    /\ keyboard = KeyboardInit
    /\ ui = [controller |-> DefaultGains, forces |-> ForceParams(0, 0, 0, 0, FALSE)]
    /\ viz = getState(drone)
    /\ training = TrainingInit(TotalIterations)
    /\ loops = <<>>
    /\ trial = [NoTrial EXCEPT !.params = DefaultGains]

\* one pass of the loop of evaluateParams (lines 204-213)
DescentStep ==
    /\ pc = "trial"
    /\ trial.step < DescentSteps
    /\ \E r \in RandTapes : PhysicsTick(r)
    /\ trial' = [trial EXCEPT !.step = @ + 1,
                              !.lyapunovValues = Append(@, controller'.lyapunovValue)]
    /\ sim' = [sim EXCEPT !.time = sim.time + FixedTimeStep]
    /\ UNCHANGED <<pc, rafPending, keyboard, ui, viz, training, loops>>

SpecDescent == InitDescent /\ [][DescentStep]_vars

(***************************************************************************)
(* Drone.setMotorSpeeds, Drone.update and Drone.reset called in any order  *)
(***************************************************************************)
SpeedInputs == {<<2000, -1000, 500, 500>>, <<0, 1000, 1001, -1>>, <<300, 300, 300, 300>>}

\* drone.setMotorSpeeds(speeds)
SetSpeeds ==
    /\ pc = "idle"
    /\ \E speeds \in SpeedInputs : drone' = setMotorSpeeds(drone, speeds)
    /\ UNCHANGED <<pc, sim, rafPending, controller, forces, keyboard, ui, viz,
                   training, loops, trial>>

\* drone.reset()
ResetDrone ==
    /\ pc = "idle"
    /\ drone' = DroneReset(drone)
    /\ UNCHANGED <<pc, sim, rafPending, controller, forces, keyboard, ui, viz,
                   training, loops, trial>>

NextMotors ==
    \/ SetSpeeds
    \/ UpdateStep
    \/ ResetDrone

SpecMotors == InitDrone /\ [][NextMotors]_vars

(***************************************************************************)
(* Drone.update turning the drone through the ends of the angle range:     *)
(* attitudes just inside -pi and pi, slow and fast spins                   *)
(***************************************************************************)
SpinAngles == {0, Pi - 1, 1 - Pi}
SpinRates == {0, 120, -120, 400000}

InitSpin ==
    /\ pc = "idle"
    /\ sim = SimInit
    /\ rafPending = 0
    /\ controller = ControllerInit
    /\ forces = ExternalForcesInit
    /\ keyboard = KeyboardInit
    /\ ui = [controller |-> DefaultGains, forces |-> InitForceParams]
    /\ viz = getState(DroneInit)
    /\ training = TrainingInit(TotalIterations)
    /\ loops = <<>>
    /\ trial = NoTrial
    /\ \E roll \in SpinAngles, yaw \in SpinAngles, wx \in SpinRates, wy \in SpinRates :
          drone = [DroneInit EXCEPT !.rotation = Angles(roll, 0, yaw),
                                    !.angularVelocity = Vec(wx, wy, 0)]

SpecSpin == InitSpin /\ [][UpdateStep]_vars

(***************************************************************************)
(* computeControl on its own: any accumulated integral, any drone state,   *)
(* any target, two step lengths                                            *)
(***************************************************************************)
MaxControls == 3
IntegralStarts == {0, MaxIntegralError - 10, 10 - MaxIntegralError}
ControlPositions == {Vec(0, 2000, 0), Vec(60000, 2000, -60000), Vec(-900, 100, 40000),
                     Vec(500, 9000, 0), Vec(0, 2500, 0)}
ControlRotations == {ZeroAngles, Angles(3000, -3000, 1500), Angles(30, -20, 5)}
ControlTargets == {Vec(0, 2000, 0), Vec(-15000, 500, 0)}
ControlSteps == {FixedTimeStep, MaxDeltaTime}
ControlGains == {DefaultGains, Gains(50000, 0, 50000, 50000, 0, 50000)}

InitCtrl ==
    /\ pc = "idle"
    /\ sim = SimInit
    /\ rafPending = 0
    /\ forces = ExternalForcesInit
    /\ keyboard = KeyboardInit
    /\ ui = [controller |-> DefaultGains, forces |-> InitForceParams]
    /\ viz = getState(DroneInit)
    /\ training = TrainingInit(TotalIterations)
    /\ loops = <<>>
    /\ trial = NoTrial
    /\ \E p \in ControlPositions, a \in ControlRotations :
          drone = [DroneInit EXCEPT !.position = p, !.rotation = a]
    /\ \E i \in IntegralStarts, t \in ControlTargets, g \in ControlGains :
          controller = [ControllerInit EXCEPT !.gains = g,
                                              !.integralPosError = Vec(i, -i, 0),
                                              !.integralRotError = Angles(-i, 0, i),
                                              !.targetPosition = t]

\* controller.computeControl(drone, dt) against a drone held in place
ControlStep ==
    /\ pc = "idle"
    /\ sim.time < MaxControls * FixedTimeStep
    /\ \E dt \in ControlSteps :
          controller' = computeControl(controller, drone, dt).controller
    /\ sim' = [sim EXCEPT !.time = @ + FixedTimeStep]
    /\ UNCHANGED <<pc, rafPending, drone, forces, keyboard, ui, viz, training,
                   loops, trial>>

SpecCtrl == InitCtrl /\ [][ControlStep]_vars

(***************************************************************************)
(* computeControl for a drone that rests exactly at the target pose; the   *)
(* motor speeds it returns are stored by setMotorSpeeds                    *)
(***************************************************************************)
HoverPositions == {Vec(0, 2000, 0), Vec(-15000, 500, 0), Vec(3000, 10000, -7000)}
HoverRotations == {ZeroAngles, Angles(0, 0, 1500), Angles(200, 0, 0), Angles(0, -300, Pi)}

\* the controller after setTargetPosition and setTargetRotation to pose p, a
ControllerAt(c, p, a) ==
    setTargetRotation(setTargetPosition(c, p.x, p.y, p.z), a.roll, a.pitch, a.yaw)

InitHover ==
    /\ pc = "idle"
    /\ sim = SimInit
    /\ rafPending = 0
    /\ forces = ExternalForcesInit
    /\ keyboard = KeyboardInit
    /\ ui = [controller |-> DefaultGains, forces |-> InitForceParams]
    /\ viz = getState(DroneInit)
    /\ training = TrainingInit(TotalIterations)
    /\ loops = <<>>
    /\ trial = NoTrial
    /\ \E p \in HoverPositions, a \in HoverRotations, g \in ControlGains :
          /\ drone = [DroneInit EXCEPT !.position = p, !.rotation = a]
          /\ controller = ControllerAt([ControllerInit EXCEPT !.gains = g], p, a)

\* steps 1 and 2 of updatePhysics against a drone held in place
HoverStep ==
    /\ pc = "idle"
    /\ sim.time < MaxControls * FixedTimeStep
    /\ \E dt \in ControlSteps :
          \E control \in {computeControl(controller, drone, dt)} :
              /\ controller' = control.controller
              /\ drone' = setMotorSpeeds(drone, control.motorSpeeds)
    /\ sim' = [sim EXCEPT !.time = @ + FixedTimeStep]
    /\ UNCHANGED <<pc, rafPending, forces, keyboard, ui, viz, training, loops, trial>>

SpecHover == InitHover /\ [][HoverStep]_vars

(***************************************************************************)
(* computeControl and LyapunovController.reset in any order, for every     *)
(* start of the two specifications above                                   *)
(***************************************************************************)
\* controller.reset()
ResetController ==
    /\ pc = "idle"
    /\ controller' = ControllerReset(controller)
    /\ controller' # controller
    /\ UNCHANGED <<pc, sim, rafPending, drone, forces, keyboard, ui, viz, training,
                   loops, trial>>

NextReset == ControlStep \/ ResetController

SpecReset == (InitCtrl \/ InitHover) /\ [][NextReset]_vars

(***************************************************************************)
(* Properties                                                              *)
(***************************************************************************)
LastRecord(h) == h[Len(h)]

InRange(p) ==
    \A k \in GainKeys : paramRanges[k].min <= p[k] /\ p[k] <= paramRanges[k].max

\* C1: while a training run is in progress (from startTraining until the
\* run finishes or is cancelled) the interactive loop stays stopped:
\* Simulation.isRunning is false, no trial turns it on.
C1_LoopStoppedWhileTraining == training.isTraining => ~sim.isRunning

\* C2: once stopTraining() has been called, a runIterations loop that was
\* in progress begins no further trial.
C2_NoTrialAfterStop == pc = "trial" => ~trial.stopCalled

\* C3: every score a trial appends to history is >= 0, and bestScore
\* changes only in two ways: startTraining resets it to Infinity with an
\* empty history, or a trial whose score is strictly lower than bestScore
\* replaces it by that score (so it never increases within a run).
C3_ScoreAndBest ==
    [][/\ Len(training'.history) > Len(training.history)
            => LastRecord(training'.history).score >= 0
       /\ training'.bestScore # training.bestScore
            => \/ /\ training'.history = <<>>
                  /\ training'.bestScore = Infinity
               \/ /\ Len(training'.history) = Len(training.history) + 1
                  /\ LastRecord(training'.history).score < training.bestScore
                  /\ training'.bestScore = LastRecord(training'.history).score
                  /\ training'.bestScore < training.bestScore]_vars

C3_Witness ==
    /\ Len(training.history) >= 2
    /\ LastRecord(training.history).score
          < training.history[Len(training.history) - 1].score
    /\ training.bestScore = LastRecord(training.history).score
    /\ training.bestParams = LastRecord(training.history).params

\* the index of the first record of h with the least score
FirstBest(h) ==
    CHOOSE k \in 1..Len(h) :
        /\ \A j \in 1..Len(h) : h[k].score <= h[j].score
        /\ \A j \in 1..(k - 1) : h[j].score > h[k].score

\* C4: (bestParams, bestScore) is the running minimum of history: the
\* score and the gain vector of the first record with the least score; and
\* while history is empty no best gain vector is held.
C4_RunningMinimum ==
    /\ training.history # <<>>
          => /\ training.bestScore = training.history[FirstBest(training.history)].score
             /\ training.bestParams = training.history[FirstBest(training.history)].params
    /\ training.history = <<>> => training.bestParams = NoParams

\* C5: trial 0 evaluates the gains of the page, trials 1-9 a vector of
\* generateRandomParams, trials from 10 on the best vector moved by at most
\* a tenth of each range and clamped into the range; every vector of a
\* trial with index >= 1 lies within paramRanges.
C5_TrialGains ==
    pc = "trial" =>
        /\ trial.i = 0 => trial.params = ui.controller
        /\ (1 <= trial.i /\ trial.i < 10)
              => \E t \in ParamTapes : trial.params = generateRandomParams(t)
        /\ trial.i >= 10
              => \A k \in GainKeys :
                    /\ Clamp(paramRanges[k].min, paramRanges[k].max,
                             training.bestParams[k]
                                - (paramRanges[k].max - paramRanges[k].min) \div 10)
                          <= trial.params[k]
                    /\ trial.params[k]
                          <= Clamp(paramRanges[k].min, paramRanges[k].max,
                                   training.bestParams[k]
                                      + (paramRanges[k].max - paramRanges[k].min) \div 10)
        /\ trial.i >= 1 => InRange(trial.params)

C5_Witness ==
    /\ pc = "trial"
    /\ trial.i >= 10
    /\ ~InRange(training.bestParams)
    /\ trial.params # training.bestParams

\* C6: at the first physics step of every trial the state is the fixed
\* initial state: drone at (2, 3, -1.5) at rest and level, integrals zero,
\* disturbance state reset, time 0, target (0, 2, 0), the trial's gains, and
\* the test disturbance configuration.
C6_TrialInitialState ==
    (pc = "trial" /\ trial.step = 0) =>
        /\ drone.position = TrialStartPosition
        /\ drone.velocity = ZeroVec
        /\ drone.rotation = ZeroAngles
        /\ drone.angularVelocity = ZeroVec
        /\ controller.integralPosError = ZeroVec
        /\ controller.integralRotError = ZeroAngles
        /\ forces.lastImpulseTime = 0
        /\ forces.impulseStartTime = -1
        /\ forces.currentImpulse = ZeroVec
        /\ sim.time = 0
        /\ controller.targetPosition = Vec(0, 2000, 0)
        /\ controller.gains = trial.params
        /\ forces.params = TestForceParams

\* C7: a physics tick of a frame is computeControl on the state before the
\* tick, setMotorSpeeds with its motor speeds, getTotalExternalForces at the
\* time before the tick, drone.update with those speeds and forces, and then
\* time + fixedTimeStep; the visualization is left alone by the ticks and
\* gets the drone only when no tick of the frame is left.
C7_TickOrder ==
    [][pc = "frame" =>
          /\ sim'.time # sim.time =>
                \E r \in RandTapes :
                \E control \in {computeControl(
                                   KeyboardUpdate(keyboard, controller, FixedTimeStep),
                                   drone, FixedTimeStep)} :
                \E field \in {getTotalExternalForces(forces, drone.position,
                                                     sim.time, r)} :
                   /\ controller' = control.controller
                   /\ forces' = field
                   /\ drone' = DroneUpdate(setMotorSpeeds(drone, control.motorSpeeds),
                                           FixedTimeStep, field.lastForces.total, ZeroVec)
                   /\ sim'.time = sim.time + FixedTimeStep
                   /\ viz' = viz
                   /\ pc' = "frame"
          /\ viz' # viz =>
                /\ sim.accumulator < FixedTimeStep
                /\ viz' = getState(drone)
                /\ drone' = drone /\ sim' = sim
                /\ pc' = "idle"]_vars

C7_Witness ==
    /\ pc = "frame"
    /\ sim.time >= 2 * FixedTimeStep
    /\ sim.accumulator >= FixedTimeStep
    /\ forces.lastForces.total # ZeroVec
    /\ viz # getState(drone)

\* C8: a frame adds min(elapsed, 0.1 s) to the accumulator and caps it at
\* 0.25 s; every tick takes fixedTimeStep off the accumulator and puts it on
\* the time, and runs only while accumulator >= fixedTimeStep; a frame ends
\* with 0 <= accumulator < fixedTimeStep.
C8_Accumulator ==
    [][/\ (pc = "idle" /\ pc' = "frame") =>
             /\ \E deltaTime \in DeltaTimes :
                   sim'.accumulator = Min(sim.accumulator + Min(deltaTime, MaxDeltaTime),
                                          MaxAccumulator)
             /\ sim'.accumulator <= MaxAccumulator
             /\ sim'.time = sim.time
       /\ (pc = "frame" /\ pc' = "frame") =>
             /\ sim.accumulator >= FixedTimeStep
             /\ sim'.accumulator = sim.accumulator - FixedTimeStep
             /\ sim'.time = sim.time + FixedTimeStep
       /\ (pc = "frame" /\ pc' = "idle") =>
             /\ sim' = sim
             /\ 0 <= sim.accumulator /\ sim.accumulator < FixedTimeStep
       /\ pc' = "idle" => (0 <= sim'.accumulator /\ sim'.accumulator < FixedTimeStep)]_vars

C8_Witness ==
    /\ pc = "frame"
    /\ sim.time = FixedTimeStep
    /\ sim.accumulator = MaxDeltaTime - FixedTimeStep

\* the sink rate and the height Drone.update reaches before its floor clamp
FreeRate(d, f, dt) ==
    d.velocity.y + MulDt(Div(calculateTotalForce(d, f).y * Scale, d.mass), dt)

FreeHeight(d, f, dt) == d.position.y + MulDt(FreeRate(d, f, dt), dt)

\* C9: after Drone.update position.y >= 0.1; when the update would end
\* below 0.1 it ends at 0.1 with velocity.y = max(0, velocity.y): a sink
\* rate becomes 0, it is not reflected.
C9_FloorClamp ==
    [][drone' # drone =>
          /\ drone'.position.y >= FloorHeight
          /\ FreeHeight(drone, forces.lastForces.total, FixedTimeStep) < FloorHeight
                => /\ drone'.position.y = FloorHeight
                   /\ drone'.velocity.y >= 0
                   /\ drone'.velocity.y
                         = Max(0, FreeRate(drone, forces.lastForces.total, FixedTimeStep))]_vars

C9_Witness ==
    /\ sim.time > 0
    /\ drone.position.y = FloorHeight
    /\ drone.velocity.y = 0
    /\ forces.lastForces.total.y < 0

\* C10: every component of integralPosError and integralRotError has
\* magnitude <= maxIntegralError.
C10_IntegralBound ==
    /\ Abs(controller.integralPosError.x) <= MaxIntegralError
    /\ Abs(controller.integralPosError.y) <= MaxIntegralError
    /\ Abs(controller.integralPosError.z) <= MaxIntegralError
    /\ Abs(controller.integralRotError.roll) <= MaxIntegralError
    /\ Abs(controller.integralRotError.pitch) <= MaxIntegralError
    /\ Abs(controller.integralRotError.yaw) <= MaxIntegralError

C10_Witness ==
    /\ sim.time >= 2 * FixedTimeStep
    /\ Abs(controller.integralPosError.x) = MaxIntegralError
    /\ Abs(controller.integralRotError.roll) = MaxIntegralError

\* C11: each of the four motor speeds computeControl returns lies in
\* [0, 1], whatever the drone state, gains, target and integral history, and
\* however large the control force and torque.
C11_MotorSpeedsInUnitRange ==
    \A dt \in ControlSteps :
        \A i \in 1..4 :
            /\ 0 <= computeControl(controller, drone, dt).motorSpeeds[i]
            /\ computeControl(controller, drone, dt).motorSpeeds[i] <= Scale

C11_Witness ==
    /\ sim.time > 0
    /\ controller.gains # DefaultGains
    /\ \E r \in {computeControl(controller, drone, FixedTimeStep)} :
          /\ \E i \in 1..4 : r.motorSpeeds[i] = 0
          /\ \E i \in 1..4 : r.motorSpeeds[i] = Scale
          /\ Magnitude(r.controlForce) >= MaxControlForce - 100

\* C12: setMotorSpeeds stores max(0, min(1, s)) for each of its four
\* inputs, so the stored motor speeds are in [0, 1] after any sequence of
\* setMotorSpeeds, update and reset; [2, -1, 0.5, 0.5] is stored as
\* [1, 0, 0.5, 0.5].
C12_StoredSpeeds ==
    [][/\ \A i \in 1..4 : 0 <= drone'.motorSpeeds[i] /\ drone'.motorSpeeds[i] <= Scale
       /\ drone'.motorSpeeds # drone.motorSpeeds
             => \/ drone'.motorSpeeds = <<500, 500, 500, 500>> /\ drone' = DroneReset(drone)
                \/ \E speeds \in SpeedInputs :
                      /\ drone'.motorSpeeds
                            = [i \in 1..4 |-> Max(0, Min(Scale, speeds[i]))]
                      /\ speeds = <<2000, -1000, 500, 500>>
                            => drone'.motorSpeeds = <<1000, 0, 500, 500>>]_vars

C12_Witness ==
    /\ sim.time > 0
    /\ drone.motorSpeeds = <<1000, 0, 500, 500>>
    /\ drone.angularVelocity # ZeroVec

\* theta is in the half-open range (-pi, pi]
HalfOpen(theta) == -Pi < theta /\ theta <= Pi

\* C13: every angle normalizeAngle produces, hence roll, pitch and yaw after
\* every Drone.update and every component of the rotation error, satisfies
\* -pi < theta <= pi.
C13_AnglesHalfOpen ==
    /\ sim.time > 0
          => /\ HalfOpen(drone.rotation.roll)
             /\ HalfOpen(drone.rotation.pitch)
             /\ HalfOpen(drone.rotation.yaw)
    /\ HalfOpen(calculateRotationError(controller, drone.rotation).roll)
    /\ HalfOpen(calculateRotationError(controller, drone.rotation).pitch)
    /\ HalfOpen(calculateRotationError(controller, drone.rotation).yaw)

\* the projectiles in flight
JarsOf(e) == {e.activePickleJars[k] : k \in 1..Len(e.activePickleJars)}

\* the projectile of e spawned at the same time as jar, if still in flight
SameJar(e, jar) == {next \in JarsOf(e) : next.spawnTime = jar.spawnTime}

\* the projectiles whose collision branch ran in this call
Flips == {jar \in JarsOf(forces) : ~jar.isFalling /\ \E next \in SameJar(forces', jar) : next.isFalling}

\* calls of updatePickleJars the projectile has been through
JarMoves(e, jar) == (e.time - jar.spawnTime) \div FixedTimeStep + 1

JarDistance(jar) == Magnitude(SubVec(jar.position, drone.position))

\* C14: a projectile aimed at the drone from 15 m closes in on it until it
\* enters the collision radius, where its collision branch runs: the impact
\* force is added to the output of the field, the velocity is reflected and
\* damped, and hasCollided and isFalling are set.  The branch runs once: a
\* falling projectile keeps its flags and adds no force, also inside the
\* collision radius.
C14_CollidesOnce ==
    [][/\ \A jar \in JarsOf(forces) : \A next \in SameJar(forces', jar) :
             /\ jar.isFalling => next.isFalling /\ next.hasCollided
             /\ next.isFalling = next.hasCollided
             /\ jar \in Flips
                   => /\ JarDistance(JarMoved(jar)) < PickleJarCollisionRadius
                      /\ Magnitude(next.velocity)
                            <= Mul(Magnitude(jar.velocity), Restitution) + 1733
                      /\ next.velocity # jar.velocity
       /\ \A next \in JarsOf(forces') :
             ~next.isFalling
                 => /\ JarDistance(next) >= PickleJarCollisionRadius
                    /\ JarDistance(next)
                          + JarMoves(forces', next)
                              * (MulDt(forces.jarParams.pickleJarSpeed, JarDt) - 2)
                          <= SpawnDistance + 20
       /\ forces'.lastForces.pickleJar # ZeroVec => Flips # {}
       /\ Cardinality(Flips) = 1
             => /\ Magnitude(forces'.lastForces.pickleJar)
                      \in (forces.jarParams.pickleJarImpactForce - 10)
                            ..(forces.jarParams.pickleJarImpactForce + 10)
                /\ forces'.lastForces.total = forces'.lastForces.pickleJar]_vars

\* a projectile that has bounced is still inside the collision radius one
\* call later, and the field reports no impact
C14_Witness ==
    /\ forces.lastForces.pickleJar = ZeroVec
    /\ \E jar \in JarsOf(forces) :
          /\ jar.isFalling /\ jar.hasCollided
          /\ JarDistance(jar) < PickleJarCollisionRadius

\* the most projectiles a spawn frequency and the lifetime limit allow
JarBound(e) ==
    (MaxJarLifetime * e.jarParams.pickleJarFrequency) \div (TimeScale * Scale) + 1

\* C15: the projectiles in flight cannot grow without bound: none is older
\* than 30 s of simulated time, their number stays within the bound the
\* spawn frequency and the lifetime limit determine, and a projectile leaves
\* the set only on the ground while falling, farther than 50 from the
\* origin, or older than 30 s.
C15_BoundedProjectiles ==
    /\ [](/\ \A jar \in JarsOf(forces) : forces.time - jar.spawnTime <= MaxJarLifetime
          /\ Len(forces.activePickleJars) <= JarBound(forces)
          /\ Cardinality(JarsOf(forces)) = Len(forces.activePickleJars))
    /\ [][\A jar \in JarsOf(forces) :
             SameJar(forces', jar) = {}
                 => \/ JarMoved(jar).position.y <= JarFloor /\ jar.isFalling
                    \/ Magnitude(JarMoved(jar).position) > MaxJarDistance
                    \/ forces'.time - jar.spawnTime > MaxJarLifetime]_vars

\* as many projectiles in flight as the bound allows, the oldest one 30 s old
C15_Witness ==
    /\ Len(forces.activePickleJars) = JarBound(forces)
    /\ Len(forces.activePickleJars) > 1
    /\ \E jar \in JarsOf(forces) : forces.time - jar.spawnTime = MaxJarLifetime

\* the drone rests exactly at the target pose and nothing is accumulated
AtTargetPose ==
    /\ drone.position = controller.targetPosition
    /\ drone.rotation = controller.targetRotation
    /\ drone.velocity = ZeroVec /\ drone.angularVelocity = ZeroVec
    /\ controller.integralPosError = ZeroVec
    /\ controller.integralRotError = ZeroAngles

\* mass * g / (4 * motorThrust)
BaseThrust(d) == Div(Mul(d.mass, Gravity) * Scale, 4 * d.motorThrust)

\* C16: for a drone exactly at the target position and target orientation,
\* at rest, with zero integral accumulators, computeControl yields V = 0 and
\* four motor speeds equal to the base thrust mass * g / (4 * motorThrust).
C16_HoverAtTarget ==
    AtTargetPose
        => \A dt \in ControlSteps :
              /\ computeControl(controller, drone, dt).controller.lyapunovValue = 0
              /\ \A i \in 1..4 :
                    computeControl(controller, drone, dt).motorSpeeds[i] = BaseThrust(drone)

\* no thrust and no external force act on the drone
Unpowered == drone.motorSpeeds = <<0, 0, 0, 0>> /\ forces.lastForces.total = ZeroVec

\* a and b differ by at most one unit of rounding
Near(a, b) == Abs(a - b) <= 1

\* C17 as stated: with zero external force and all motor speeds 0, each
\* Drone.update decreases velocity.y by g * dt until the floor clamp engages;
\* an update that ends on the floor leaves velocity.y >= 0 and position.y
\* at 0.1 exactly.
C17_FreeFall ==
    [][(Unpowered /\ drone' # drone)
          => IF FreeHeight(drone, ZeroVec, FixedTimeStep) >= FloorHeight
             THEN Near(drone'.velocity.y,
                       drone.velocity.y - MulDt(Gravity, FixedTimeStep))
             ELSE drone'.position.y = FloorHeight /\ drone'.velocity.y >= 0]_vars

\* C17 amended: velocity.y changes by -(g + dragCoefficient * velocity.y /
\* mass) * dt per update, which is g * dt only from rest; the floor part is
\* as stated, and a drone resting on the floor stays there at velocity.y 0.
C17_FreeFallWithDrag ==
    [][(Unpowered /\ drone' # drone)
          => /\ IF FreeHeight(drone, ZeroVec, FixedTimeStep) >= FloorHeight
                THEN Near(drone'.velocity.y,
                          drone.velocity.y
                            - MulDt(Gravity + Div(DragCoefficient * drone.velocity.y,
                                                  drone.mass), FixedTimeStep))
                ELSE drone'.position.y = FloorHeight /\ drone'.velocity.y >= 0
             /\ (drone.position.y = FloorHeight /\ drone.velocity.y = 0)
                   => drone'.position.y = FloorHeight /\ drone'.velocity.y = 0]_vars

\* an unpowered drone that fell for two updates, slowed by the drag, and
\* one that was stopped by the floor and stayed there
C17_Witness ==
    /\ sim.time = 2 * FixedTimeStep
    /\ Unpowered
    /\ \/ drone.position.y > FloorHeight /\ drone.velocity.y \in (-3320)..(-3300)
       \/ drone.position.y = FloorHeight /\ drone.velocity.y = 0

\* V stays below the threshold over the window computeScore inspects from
\* index i on
StaysBelow(q, i) ==
    \A j \in i .. (Min(i + SettleWindow, Len(q) + 1) - 1) : q[j] < SettleThreshold

\* the settling index as stated, 0-based; the trace length if there is none
StatedSettling(q) ==
    IF \E i \in 1..Len(q) : StaysBelow(q, i)
    THEN (CHOOSE i \in 1..Len(q) : StaysBelow(q, i) /\ \A k \in 1..(i - 1) : ~StaysBelow(q, k)) - 1
    ELSE Len(q)

StatedScore(q) ==
    Div(4 * SumSeq(q), 10 * Len(q))
    + Div(3 * StatedSettling(q) * Scale, 10 * Len(q))
    + Div(2 * MaxSeq(q), 10)
    + Div(Div(SumSeq(LastValues(q)), Len(LastValues(q))), 10)

\* C18: computeScore returns 0.4 x mean V + 0.3 x settling index / length
\* + 0.2 x max V + 0.1 x mean V over the final 100 steps, the settling index
\* being the first index from which V stays below the threshold for the
\* following 100 steps, the trace length if there is none.
C18_ScoreAsStated ==
    training.history # <<>>
        => LastRecord(training.history).score = StatedScore(trial.lyapunovValues)

\* C19: what getState and getLastForces hand out never aliases internal
\* state: outside a physics tick (handing out, or the consumer writing to
\* what it holds) the drone and the disturbance field do not change, and a
\* physics tick does not change what the consumer reads from an object it
\* was handed earlier.
C19_NoAliasing ==
    [][/\ sim' = sim => drone' = drone /\ forces' = forces
       /\ sim' # sim
             => /\ viz'.state = viz.state
                /\ Seen(viz'.forces, forces') = Seen(viz.forces, forces)]_vars

\* C20: LyapunovController.reset sets every integral accumulator and the
\* cached Lyapunov value to 0 and leaves the six gains, targetPosition and
\* targetRotation unchanged.
C20_ResetKeepsGainsAndTarget ==
    [][(sim' = sim /\ controller' # controller)
          => /\ controller'.integralPosError = ZeroVec
             /\ controller'.integralRotError = ZeroAngles
             /\ controller'.lyapunovValue = 0
             /\ controller'.gains = controller.gains
             /\ controller'.targetPosition = controller.targetPosition
             /\ controller'.targetRotation = controller.targetRotation]_vars

\* a controller that has been reset after computeControl ran away from the
\* target: V is 0 although the drone is off target, gains and target pose
\* are not the constructor's
C20_Witness ==
    /\ sim.time > 0
    /\ drone.position # controller.targetPosition
    /\ controller.lyapunovValue = 0
    /\ controller.integralPosError = ZeroVec
    /\ controller.integralRotError = ZeroAngles
    /\ controller.gains # DefaultGains
    /\ controller.targetPosition # ControllerInit.targetPosition

\* C21: after computeControl returns, targetRotation holds the roll, pitch
\* and yaw it held before the call: the desired-tilt override of roll and
\* pitch does not stay in the controller, and yaw is never overridden.
C21_TargetRotationRestored ==
    /\ [](\A dt \in ControlSteps :
            computeControl(controller, drone, dt).controller.targetRotation
                = controller.targetRotation)
    /\ [][controller'.targetRotation = controller.targetRotation]_vars

\* computeControl has run with a desired tilt that differs from the target
\* roll, for a level target and for a tilted one
C21_Witness ==
    /\ sim.time > 0
    /\ computeControl(controller, drone, FixedTimeStep).desiredAngles.roll
          # controller.targetRotation.roll
    /\ computeControl(controller, drone, FixedTimeStep).desiredAngles.roll # 0
    /\ controller.targetRotation.yaw = 0

\* C22: with windSpeed = 0 the wind component the field returns is the zero
\* vector on every call, at every simulated time and for every wind
\* direction: no turbulence and no vertical gust is added.
C22_NoWindAtZeroSpeed ==
    forces.params.windSpeed = 0
        => /\ forces.lastForces.wind = ZeroVec
           /\ \A r \in RandTapes : getWindForce(forces, r) = ZeroVec

\* a field with zero wind speed and a wind direction, called while an
\* impulse acts
C22_Witness ==
    /\ sim.time > 0
    /\ forces.params.windSpeed = 0
    /\ forces.params.windDirection = 225
    /\ forces.lastForces.impulse # ZeroVec
    /\ forces.lastForces.total = forces.lastForces.impulse

\* C23: from position (2, 3, -1.5) at rest, target (0, 2, 0), default
\* gains, no disturbance and step 1/60 s, over 600 physics steps the mean of
\* the final 100 Lyapunov values is strictly lower than the mean of the
\* first 100.
C23_LyapunovDecreases ==
    trial.step = DescentSteps
        => SumRange(trial.lyapunovValues, DescentSteps - 99, DescentSteps)
              < SumRange(trial.lyapunovValues, 1, 100)

\* the runIterations loops in being: the one inside a trial and those
\* suspended in sleep(100)
ActiveLoops == Len(loops) + (IF pc = "trial" THEN 1 ELSE 0)

\* C24: under any interleaving of startTraining and stopTraining with the
\* between-trial delay at most one runIterations loop is active, history
\* never holds more than totalIterations records and the iteration indices
\* of its records are 1, 2, 3, ... in order.
C24_SequentialSearch ==
    /\ ActiveLoops <= 1
    /\ Len(training.history) <= training.totalIterations
    /\ \A n \in 1..Len(training.history) : training.history[n].iteration = n

\* C25: under any sequence of start(), stop() and pause() calls interleaved
\* with animation-frame callbacks at most one animate() chain is live: while
\* the loop runs there is never more than one pending requestAnimationFrame
\* callback (a stop() followed by start() before the pending callback fires
\* does not leave two).
C25_SingleAnimateChain == sim.isRunning => rafPending <= 1

\* best + noise clamped into the range, the noise being the draw taken
\* linearly from [0, 1) onto -percent% .. +percent% of the range width
PerturbedGain(best, range, draw, percent) ==
    Clamp(range.min, range.max,
          best + ((draw - 500) * 2 * percent * (range.max - range.min)) \div (100 * Scale))

\* the gains of a trial with index >= 10 are the best-known gains plus a
\* noise of +/-percent% of each range width, clamped (to the last digit)
PerturbedBy(percent) ==
    (pc = "trial" /\ trial.i >= ExploreIterations /\ training.bestParams # NoParams)
        => \E t \in ParamTapes :
              \A k \in GainKeys :
                 Abs(trial.params[k]
                        - PerturbedGain(training.bestParams[k], paramRanges[k],
                                        t[k], percent)) <= 1

\* C26 as stated: in trials with index >= 10 each tested gain equals the
\* best-known gain plus a noise term drawn uniformly from +/-20% of that
\* gain's range width (max - min), the sum then clamped into [min, max].
C26_NoiseAsStated == PerturbedBy(20)

Largest(v) == Max(Abs(v.x), Max(Abs(v.y), Abs(v.z)))

\* v brought down to components of about 1 (so that products stay small)
Shrunk(v, k) == Vec(v.x \div k, v.y \div k, v.z \div k)

\* v points the way of s: the cross product vanishes (to the rounding of
\* the components) and the dot product is positive
Along(v, s) ==
    /\ Abs(v.x * s.y - v.y * s.x) <= 50000
    /\ Abs(v.y * s.z - v.z * s.y) <= 50000
    /\ Abs(v.z * s.x - v.x * s.z) <= 50000
    /\ v.x * s.x + v.y * s.y + v.z * s.z > 0

\* v is the sum `raw` returned under the cap: unchanged when raw is within
\* the cap, otherwise no longer than the cap and in the direction of raw
CappedFrom(v, raw, cap) ==
    /\ Magnitude(v) <= cap + 20
    /\ IF Magnitude(raw) > cap
       THEN Along(v, Shrunk(raw, Largest(raw) \div Scale + 1))
       ELSE v = raw

\* the position sum and the orientation sum of a computeControl call with
\* result r, rebuilt from the errors and the integrals it left
ForceSum(c, d, r) ==
    PositionSum(c, d, calculatePositionError(c, d.position),
                r.controller.integralPosError)

TorqueSum(c, d, r) ==
    RotationSum(c, d,
                calculateRotationError(OverrideTarget(c, r.desiredAngles), d.rotation),
                r.controller.integralRotError)

ControlCapped(c, d, r) ==
    /\ CappedFrom(r.controlForce, ForceSum(c, d, r), MaxControlForce)
    /\ CappedFrom(r.controlTorque, TorqueSum(c, d, r), MaxControlTorque)
    /\ Abs(r.desiredAngles.roll) <= MaxTiltAngle
    /\ Abs(r.desiredAngles.pitch) <= MaxTiltAngle
    /\ Mul(d.mass, Gravity) + r.controlForce.y <= ThrustEpsilon
          => (r.desiredAngles.roll = 0 /\ r.desiredAngles.pitch = 0)

\* C27: the controlForce computeControl returns has magnitude <=
\* maxControlForce (20) and the controlTorque <= maxControlTorque (5); a sum
\* over the cap is rescaled with its direction kept, a sum under the cap is
\* returned unchanged; the desired roll and pitch are within +/-30 degrees,
\* and both 0 when mass*g + controlForce.y is not above the epsilon.
C27_BoundedControl ==
    \A dt \in ControlSteps :
       ControlCapped(controller, drone, computeControl(controller, drone, dt))

\* a drone high above its target and off to the side: the force sum is
\* over the cap, points down hard enough to leave no thrust to tilt, and
\* the torque sum is under the cap
C27_Witness ==
    /\ sim.time > 0
    /\ Magnitude(ForceSum(controller, drone,
                          computeControl(controller, drone, FixedTimeStep)))
          > MaxControlForce
    /\ computeControl(controller, drone, FixedTimeStep).controlForce.x # 0
    /\ Mul(drone.mass, Gravity)
          + computeControl(controller, drone, FixedTimeStep).controlForce.y
             <= ThrustEpsilon
    /\ computeControl(controller, drone, FixedTimeStep).controlTorque # ZeroVec
    /\ Magnitude(TorqueSum(controller, drone,
                           computeControl(controller, drone, FixedTimeStep)))
          <= MaxControlTorque

\* the projectile, moved by one step, is up for the collision test within
\* the epsilon of the drone at p
HitsWithinEpsilon(jar, p) ==
    /\ JarCanHit(JarMoved(jar))
    /\ ~JarLanded(JarMoved(jar))
    /\ Magnitude(SubVec(JarMoved(jar).position, p)) < DistanceEpsilon

\* C28: no division by a near-zero distance in the obstacle and the
\* projectile force calculations: when the drone is within the epsilon of
\* an obstacle centre, or a colliding projectile within the epsilon of the
\* drone, the corresponding force contribution is zero (no quotient by that
\* distance is computed), and no non-finite value enters the field's output
\* or a projectile's state.
C28_NoNearZeroDivision ==
    /\ \A ob \in Obstacles :
          Magnitude(SubVec(drone.position, ob.position)) < DistanceEpsilon
             => ObstacleForce(ob, drone.position) = ZeroVec
    /\ \A k \in 1..Len(forces.activePickleJars), r \in JarTapes :
          HitsWithinEpsilon(forces.activePickleJars[k], drone.position)
             => JarUpdate(forces, forces.activePickleJars[k], drone.position, r).force
                   = ZeroVec
    /\ \A k \in 1..Len(forces.activePickleJars) : forces.activePickleJars[k].finite

\* the step is a call getImpulseForce(sim.time) of the field
ImpulseCall == sim'.time = sim.time + FixedTimeStep

\* the call starts a new impulse
ImpulseStarted == ImpulseCall /\ forces'.impulseStartTime = sim.time

\* simulated time since the impulse start as the call sees it
ImpulseElapsed == sim.time - forces'.impulseStartTime

\* one component of the returned impulse is that of the impulse vector
\* faded linearly over impulseDuration (to the rounding of the factor)
Faded(returned, impulse, elapsed) ==
    Abs(returned * ImpulseDuration - impulse * (ImpulseDuration - elapsed))
       <= (Abs(impulse) \div Scale + 2) * ImpulseDuration

FadedLinearly(returned, impulse, elapsed) ==
    /\ Faded(returned.x, impulse.x, elapsed)
    /\ Faded(returned.y, impulse.y, elapsed)
    /\ Faded(returned.z, impulse.z, elapsed)

\* when an impulse starts, how it fades and when the call returns zero
ImpulseCourse ==
    /\ ImpulseStarted
          => /\ forces.params.impulseFrequency > 0
             /\ (sim.time - Max(forces.impulseStartTime, 0)) * forces.params.impulseFrequency
                   >= TimeScale * Scale
    /\ (forces'.impulseStartTime >= 0 /\ ImpulseElapsed < ImpulseDuration)
          => FadedLinearly(forces'.lastForces.impulse, forces'.currentImpulse,
                           ImpulseElapsed)
    /\ (forces'.impulseStartTime < 0 \/ ImpulseElapsed >= ImpulseDuration)
          => forces'.lastForces.impulse = ZeroVec

\* C29 as stated: a new impulse starts only when at least 1/impulseFrequency
\* of simulated time has passed since the last start (never at frequency
\* 0); the returned impulse has magnitude <= impulseIntensity, fades
\* linearly with the time since the start and is zero from impulseDuration
\* after the start on, or when no impulse has started since the last reset.
C29_ImpulseAsStated ==
    [][ImpulseCall
          => /\ ImpulseCourse
             /\ Magnitude(forces'.lastForces.impulse)
                   <= forces.params.impulseIntensity + 20]_vars

\* C29: as above, the bound on the returned impulse being the
\* impulseIntensity in force when the impulse started: the impulse vector
\* has that magnitude at most, and the returned impulse is never longer
\* than the impulse vector.
C29_ImpulseCourse ==
    [][ImpulseCall
          => /\ ImpulseCourse
             /\ ImpulseStarted
                   => Magnitude(forces'.currentImpulse)
                         <= forces.params.impulseIntensity + 20
             /\ Magnitude(forces'.lastForces.impulse)
                   <= Magnitude(forces'.currentImpulse) + 20]_vars

\* an impulse of intensity 12 has faded for two steps, and the intensity
\* field was lowered to 3 after it had started
C29_Witness ==
    /\ forces.impulseStartTime >= 0
    /\ forces.time = forces.impulseStartTime + 2 * FixedTimeStep
    /\ forces.lastForces.impulse # ZeroVec
    /\ Magnitude(forces.currentImpulse) > 11000
    /\ forces.params.impulseIntensity = 3000
    /\ Magnitude(forces.lastForces.impulse) > forces.params.impulseIntensity
    /\ Magnitude(forces.lastForces.impulse) < Magnitude(forces.currentImpulse)

\* the drone level and at rest with the motor speeds of the control
\* result r: its torque is that of the motors alone, its vertical force the
\* thrust less the weight
Fed(d, r) ==
    [setMotorSpeeds(d, r.motorSpeeds) EXCEPT !.rotation = ZeroAngles,
                                             !.velocity = ZeroVec,
                                             !.angularVelocity = ZeroVec]

\* none of the four mixed motor speeds of the result is clamped
Unclamped(d, r) ==
    ClampSpeeds(MixedSpeeds(d, r.controlForce, r.controlTorque))
       = MixedSpeeds(d, r.controlForce, r.controlTorque)

\* the motors give back the torque and the thrust that were asked for (to
\* the rounding of the motor speeds)
MixInverted(d, r, motorTorque, totalForce) ==
    /\ Abs(motorTorque.x - r.controlTorque.x) <= 5
    /\ Abs(motorTorque.y - r.controlTorque.y) <= 5
    /\ Abs(motorTorque.z - r.controlTorque.z) <= 5
    /\ Abs(totalForce.y - r.controlForce.y) <= 12

MixInverse(d, r) ==
    Unclamped(d, r)
       => MixInverted(d, r, calculateTotalTorque(Fed(d, r), ZeroVec),
                      calculateTotalForce(Fed(d, r), ZeroVec))

\* C30: whenever none of the four mixed motor speeds is clamped, the motor
\* speeds computeControl returns give, fed to the drone, motor torques
\* (before angular damping) equal to controlTorque on the roll (x), yaw (y)
\* and pitch (z) channels and a total thrust equal to mass*g +
\* controlForce.y.
C30_MixInverse ==
    \A dt \in ControlSteps :
       MixInverse(drone, computeControl(controller, drone, dt))

\* a control result with torque on all three channels and a vertical force,
\* none of whose motor speeds is clamped, the four speeds all different
C30_Witness ==
    /\ sim.time > 0
    /\ Unclamped(drone, computeControl(controller, drone, FixedTimeStep))
    /\ Abs(computeControl(controller, drone, FixedTimeStep).controlTorque.x) > 100
    /\ Abs(computeControl(controller, drone, FixedTimeStep).controlTorque.y) > 30
    /\ Abs(computeControl(controller, drone, FixedTimeStep).controlTorque.z) > 100
    /\ Abs(computeControl(controller, drone, FixedTimeStep).controlForce.y) > 1000
    /\ Cardinality({computeControl(controller, drone, FixedTimeStep).motorSpeeds[i]
                       : i \in 1..4}) = 4

=============================================================================
